---- MODULE Spec2Model ----
(***************************************************************************)
(* FluxApiService (frontend/api-service.js): the request coordinator of   *)
(* the Flux analyzer.  analyzeAudio turns calls to the remote analysis    *)
(* function into cached, de-duplicated and retried requests.              *)
(*                                                                         *)
(* Time is the value of Date.now() in milliseconds.  A timer set with     *)
(* setTimeout fires at its deadline: the clock does not pass the deadline *)
(* of an armed timer.  The continuation of analyzeAudio after             *)
(* `await requestPromise` is the first reaction registered on the promise *)
(* and runs to the end of `finally` without suspending, so the settling   *)
(* of a request and the owner's bookkeeping are one step.                 *)
(***************************************************************************)
EXTENDS Integers, Sequences, FiniteSets, TLC

(* ----- bounds of the model ----- *)
MaxCalls == 2
MaxRequests == 2
MaxTime == 500
TickStep == 500
ShortTimeout == 1500
MaxVer == 2

(* ----- SETTINGS ----- *)
TIMEOUT == 30000
RETRY_ATTEMPTS == 2
RETRY_DELAY == 1000
CACHE_TTL == 5 * 60 * 1000
MAX_CACHE_ENTRIES == 50
HISTORY_LIMIT == 100
HISTORY_READ == 20
KEY_SLICE == 64

(* ----- ERRORS: the message of each error the service throws ----- *)
NETWORK_ERROR == "Network connection failed. Please check your internet connection."
TIMEOUT_ERROR == "Request timeout. Please try again."
API_UNAVAILABLE == "Analysis service is temporarily unavailable."
INVALID_RESPONSE == "Invalid response from server."
RATE_LIMITED == "Too many requests. Please wait a moment."
INVALID_URL == "Please enter a valid audio URL (http:// or https://)."

(* An error value: the `name` and `message` fields of a JS Error. *)
Err(name, message) == [name |-> name, message |-> message]
NoError == Err("", "")
AbortError == Err("AbortError", "The user aborted a request.")
FetchTypeError == Err("TypeError", "Failed to fetch")
JsonSyntaxError == Err("SyntaxError", "Unexpected token")
HttpError(status) == Err("Error", "HTTP 4xx")

(* ----- identifiers: a URL is the sequence of its bytes ----- *)
Rep(n, b) == [i \in 1..n |-> b]
SchemeHttps == <<104, 116, 116, 112, 115>>
SchemeHttp == <<104, 116, 116, 112>>
SchemeFtp == <<102, 116, 112>>
Colon == 58
Slash == 47
HttpsPrefix == SchemeHttps \o <<Colon, Slash, Slash>>

(* The inputs analyzeAudio is called with.  "A" and "B" are two URLs of   *)
(* 49 bytes that differ in the last byte only; "C" and "D" are short     *)
(* URLs; "F" has the ftp scheme; "E" is the empty string; "N" is not a    *)
(* string; "L" and "M" are the data URLs FileReader.readAsDataURL makes   *)
(* of two files, `data:<type>;base64,<data>`.                             *)
SchemeData == <<100, 97, 116, 97>>
UrlNames == {"A", "B", "C", "D", "F", "E", "N", "L", "M"}
UrlValue(u) ==
    CASE u = "A" -> [isString |-> TRUE, bytes |-> HttpsPrefix \o Rep(40, 97) \o <<49>>]
      [] u = "B" -> [isString |-> TRUE, bytes |-> HttpsPrefix \o Rep(40, 97) \o <<50>>]
      [] u = "C" -> [isString |-> TRUE, bytes |-> HttpsPrefix \o <<99>>]
      [] u = "D" -> [isString |-> TRUE, bytes |-> HttpsPrefix \o <<100>>]
      [] u = "F" -> [isString |-> TRUE, bytes |-> SchemeFtp \o <<Colon, Slash, Slash, 120>>]
      [] u = "E" -> [isString |-> TRUE, bytes |-> <<>>]
      [] u = "L" -> [isString |-> TRUE, bytes |-> SchemeData \o <<Colon, 97, 59, 98, 44, 65>>]
      [] u = "M" -> [isString |-> TRUE, bytes |-> SchemeData \o <<Colon, 119, 59, 98, 44, 65>>]
      [] OTHER   -> [isString |-> FALSE, bytes |-> <<>>]

(* Position of the first colon of s, 0 when there is none. *)
RECURSIVE ColonAt(_, _)
ColonAt(s, i) ==
    IF i > Len(s) THEN 0
    ELSE IF s[i] = Colon THEN i
    ELSE ColonAt(s, i + 1)

(* a validation that accepts every string *)
validateAudioUrl_AnyString(u) == UrlValue(u).isString

(* validateAudioUrl: a non-empty string that parses as a URL whose        *)
(* protocol is http: or https: (a special scheme needs a host).           *)
validateAudioUrl(u) ==
    LET v == UrlValue(u)
        s == v.bytes
        c == ColonAt(s, 1)
        scheme == SubSeq(s, 1, c - 1)
        rest == SubSeq(s, c + 1, Len(s))
        host == IF Len(rest) >= 2 /\ rest[1] = Slash /\ rest[2] = Slash
                THEN SubSeq(rest, 3, Len(rest)) ELSE rest
    IN  /\ v.isString
        /\ Len(s) > 0
        /\ c > 1
        /\ scheme \in {SchemeHttp, SchemeHttps}
        /\ Len(host) > 0

(* btoa: base64 of a byte string, as the sequence of its 6-bit digits;    *)
(* 64 stands for the padding character.                                    *)
Pad == 64
RECURSIVE btoa(_)
btoa(s) ==
    IF Len(s) = 0 THEN <<>>
    ELSE IF Len(s) = 1 THEN
        <<s[1] \div 4, (s[1] % 4) * 16, Pad, Pad>>
    ELSE IF Len(s) = 2 THEN
        <<s[1] \div 4, (s[1] % 4) * 16 + s[2] \div 16, (s[2] % 16) * 4, Pad>>
    ELSE
        <<s[1] \div 4, (s[1] % 4) * 16 + s[2] \div 16,
          (s[2] % 16) * 4 + s[3] \div 64, s[3] % 64>>
        \o btoa(SubSeq(s, 4, Len(s)))

Slice(s, n) == SubSeq(s, 1, IF Len(s) < n THEN Len(s) ELSE n)

(* _generateCacheKey: `${type}:${btoa(identifier).slice(0, 64)}` *)
generateCacheKey(type, bytes) == <<type, Slice(btoa(bytes), KEY_SLICE)>>

(* The inputs that pass validation, and the cache key of each. *)
ValidUrls == {u \in UrlNames : validateAudioUrl(u)}
KeyTable == [u \in ValidUrls |-> generateCacheKey("analyze", UrlValue(u).bytes)]
KeyOf(u) == KeyTable[u]
CacheKeys == {KeyOf(u) : u \in ValidUrls}

(* The analyses getRecommendations is called with: "R" has bpm 128, key   *)
(* Am and camelot 8A; its identifier is `${bpm}_${key}_${camelot}`.       *)
RecNames == {"R"}
RecValue(a) == <<49, 50, 56, 95, 65, 109, 95, 56, 65>>
RecKeyTable == [a \in RecNames |-> generateCacheKey("recommendations", RecValue(a))]
RecKey(a) == RecKeyTable[a]

(* ----- analysis data ----- *)
(* What the provider returns for source `src`; `ver` tells two answers    *)
(* for the same source apart.  `cached` is metadata.cached: "absent" in   *)
(* the provider's payload, "true" or "false" once _wrapResponse tagged it.*)
Data(src, ver) == [src |-> src, ver |-> ver, cached |-> "absent"]
NullData == [src |-> "null", ver |-> 0, cached |-> "absent"]

(* _generateLocalRecommendations(analysis): version 0 of the data *)
LocalRecommendations(a) == [src |-> a, ver |-> 0, cached |-> "absent"]

(* _wrapResponse: the data with metadata.cached set *)
wrapResponse(data, fromCache) ==
    [data EXCEPT !.cached = IF fromCache THEN "true" ELSE "false"]

VARIABLES
    now,              \* Date.now()
    isOnline,         \* this.isOnline
    cache,            \* this.cache: entries in insertion order
    pendingRequests,  \* this.pendingRequests: key -> request id, 0 = no entry
    requests,         \* the _makeApiRequest invocations, by request id
    calls,            \* the distinct analyzeAudio calls made, each with what it settled with
    metrics,          \* this.metrics
    storageCache,     \* localStorage[STORAGE_KEYS.CACHE]
    storageHistory    \* localStorage[STORAGE_KEYS.HISTORY]

vars == <<now, isOnline, cache, pendingRequests, requests, calls, metrics,
          storageCache, storageHistory>>

(* The state of one HarmonicMixer.createSequence(tracks) invocation *)
VARIABLES
    tracks,           \* the array the caller passed, as it is now
    sequence,         \* `sequence`; the value returned once mixerPc = "returned"
    remaining,        \* `remaining`
    mixerPc,          \* "idle", "called", "loop" or "returned"
    iterations,       \* the iterations of the while loop executed so far
    scoreCount        \* the calculateCompatibilityScore calls the invocation has made

sequenceVars == <<tracks, sequence, remaining, mixerPc, iterations, scoreCount>>

(* The calls of HarmonicMixer.calculateCompatibilityScore(analysisA,      *)
(* analysisB) a caller makes with one pair of analyses                    *)
VARIABLES
    scoreArgA,        \* the first argument
    scoreArgB,        \* the second argument
    scoreResult,      \* the value the last call returned, NONE before the first
    scoreCalls        \* the calls made

scoreVars == <<scoreArgA, scoreArgB, scoreResult, scoreCalls>>

(* One look-up of the compatible keys of a camelot code *)
VARIABLE
    wheel             \* [source, number, letter, compatibleKeys], the keys
                      \* being <<>> before the look-up

(* The state of FluxAnalyzerUI *)
VARIABLE
    ui                \* state.isAnalyzing, state.error, state.lastResult and
                      \* the position of the _performAnalysis that is running

mixerVars == <<sequenceVars, scoreVars, wheel, ui>>

(* A field that is not given *)
NONE == 9999

(* `track.analysis || {}`: every field missing when there is no analysis. *)
(* energy is in hundredths, bpm and loudness are whole numbers.           *)
NoAnalysis == [bpm |-> NONE, camelot |-> "", compatibleKeys |-> <<>>,
               energy |-> NONE, loudness |-> NONE]

(* No score is being computed. *)
ScoreIdle ==
    /\ scoreArgA = NoAnalysis
    /\ scoreArgB = NoAnalysis
    /\ scoreResult = NONE
    /\ scoreCalls = 0

(* No sequence is being built. *)
SequenceIdle ==
    /\ tracks = <<>>
    /\ sequence = <<>>
    /\ remaining = <<>>
    /\ mixerPc = "idle"
    /\ iterations = 0
    /\ scoreCount = 0

(* No camelot code is being looked up. *)
WheelIdle == wheel = [source |-> "", number |-> 0, letter |-> "", compatibleKeys |-> <<>>]

(* FluxAnalyzerUI after construction: `this.state`, lines 236-244 *)
UiIdle == ui = [isAnalyzing |-> FALSE, pc |-> "idle", type |-> "", source |-> "",
                await |-> <<>>, error |-> "", lastResult |-> <<>>,
                refused |-> 0, started |-> 0]

MixerIdle == SequenceIdle /\ ScoreIdle /\ WheelIdle /\ UiIdle


(* ----- CacheStore ----- *)
(* The first position from i on where c holds `key`, 0 when there is none. *)
IndexOfKey(c, key, i) ==
    LET at == {j \in i..Len(c) : c[j].key = key}
    IN  IF at = {} THEN 0 ELSE CHOOSE j \in at : \A k \in at : j <= k

RemoveAt(c, i) == SubSeq(c, 1, i - 1) \o SubSeq(c, i + 1, Len(c))

(* `entry.expiresAt && Date.now() > entry.expiresAt`; expiresAt = 0 is    *)
(* the falsy value (null) of an entry stored without ttl.                 *)
Expired(entry, t) == entry.expiresAt # 0 /\ t > entry.expiresAt

(* _getFromCache: the value it returns ... *)
(* a lookup that never expires an entry *)
getFromCache_NoExpiry(c, key, t) ==
    LET i == IndexOfKey(c, key, 1)
    IN  IF i = 0 THEN NullData ELSE c[i].entry.data

getFromCache(c, key, t) ==
    LET i == IndexOfKey(c, key, 1)
    IN  IF i = 0 THEN NullData
        ELSE IF Expired(c[i].entry, t) THEN NullData
        ELSE c[i].entry.data

(* ... and the cache it leaves: an expired entry is deleted by the lookup *)
cacheAfterGet(c, key, t) ==
    LET i == IndexOfKey(c, key, 1)
    IN  IF i # 0 /\ Expired(c[i].entry, t) THEN RemoveAt(c, i) ELSE c

(* a store that loses the value *)
addToCache_Skip(c, key, data, ttl, t) == c

(* the cache is trimmed only when it is over its limit *)
addToCache_Strict(c, key, data, ttl, t) ==
    LET c1 == IF Len(c) > MAX_CACHE_ENTRIES THEN Tail(c) ELSE c
        entry == [data |-> data, cachedAt |-> t,
                  expiresAt |-> IF ttl # 0 THEN t + ttl ELSE 0]
        i == IndexOfKey(c1, key, 1)
    IN  IF i = 0 THEN Append(c1, [key |-> key, entry |-> entry])
        ELSE [c1 EXCEPT ![i].entry = entry]

(* a full cache gives up its last key, not its first *)
addToCache_EvictLast(c, key, data, ttl, t) ==
    LET c1 == IF Len(c) >= MAX_CACHE_ENTRIES THEN SubSeq(c, 1, Len(c) - 1) ELSE c
        entry == [data |-> data, cachedAt |-> t,
                  expiresAt |-> IF ttl # 0 THEN t + ttl ELSE 0]
        i == IndexOfKey(c1, key, 1)
    IN  IF i = 0 THEN Append(c1, [key |-> key, entry |-> entry])
        ELSE [c1 EXCEPT ![i].entry = entry]

(* _addToCache: drop the first key when the cache is full, then Map.set   *)
(* (an existing key keeps its place, a new key goes last).                *)
addToCache(c, key, data, ttl, t) ==
    LET c1 == IF Len(c) >= MAX_CACHE_ENTRIES THEN Tail(c) ELSE c
        entry == [data |-> data, cachedAt |-> t,
                  expiresAt |-> IF ttl # 0 THEN t + ttl ELSE 0]
        i == IndexOfKey(c1, key, 1)
    IN  IF i = 0 THEN Append(c1, [key |-> key, entry |-> entry])
        ELSE [c1 EXCEPT ![i].entry = entry]

(* _saveCacheToStorage: `{key, ...entry}` for every entry, in map order *)
saveCacheToStorage(c) ==
    [i \in 1..Len(c) |-> [key |-> c[i].key, data |-> c[i].entry.data,
                          cachedAt |-> c[i].entry.cachedAt,
                          expiresAt |-> c[i].entry.expiresAt]]

(* getHistory(limit = 20): the first `limit` entries of the stored history *)
getHistory(h, limit) == IF Len(h) > limit THEN SubSeq(h, 1, limit) ELSE h

(* _addToHistory: the entry goes before what getHistory() returns, and    *)
(* the list is cut at 100 entries                                         *)
addToHistory(h, entry) ==
    LET h1 == <<entry>> \o getHistory(h, HISTORY_READ)
    IN  IF Len(h1) > HISTORY_LIMIT THEN SubSeq(h1, 1, HISTORY_LIMIT) ELSE h1

(* ----- decisions of analyzeAudio and _makeApiRequest ----- *)
(* a lookup that never serves the cached value *)
ServedFromCache_Never(cached, forceRefresh) == FALSE

(* a lookup that serves the cached value whatever the options *)
ServedFromCache_IgnoreForce(cached, forceRefresh) == cached # NullData

(* `cached && !options.forceRefresh` *)
ServedFromCache(cached, forceRefresh) == cached # NullData /\ ~forceRefresh

(* a check that never sees the pending request *)
HasPending_Never(pending, key) == FALSE

(* `this.pendingRequests.has(cacheKey)` *)
HasPending(pending, key) == pending[key] # 0

(* `options.timeout || SETTINGS.TIMEOUT` *)
EffectiveTimeout(t) == IF t # 0 THEN t ELSE TIMEOUT

(* `options.timeout || 10000` of getRecommendations *)
REC_TIMEOUT == 10000
RecTimeout(t) == IF t # 0 THEN t ELSE REC_TIMEOUT

(* one attempt too many *)
maxAttemptsOf_OneMore(retry) == IF retry THEN RETRY_ATTEMPTS + 2 ELSE 1

(* `retry ? RETRY_ATTEMPTS + 1 : 1` *)
maxAttemptsOf(retry) == IF retry THEN RETRY_ATTEMPTS + 1 ELSE 1

(* a delay that does not grow *)
BackoffDelay_Constant(attempts) == RETRY_DELAY

(* `RETRY_DELAY * Math.pow(2, attempts - 1)` *)
BackoffDelay(attempts) == RETRY_DELAY * 2 ^ (attempts - 1)

(* the error thrown for a response that is not ok *)
ErrorOfStatus(status) ==
    IF status = 429 THEN Err("Error", RATE_LIMITED)
    ELSE IF status >= 500 THEN Err("Error", API_UNAVAILABLE)
    ELSE HttpError(status)

(* `!result || typeof result !== 'object'` on the parsed body *)
BodyKinds == {"object", "nonobject", "syntax"}
InvalidStructure(body) == body # "object"

(* a catch block that backs off after an AbortError as after any other    *)
(* failure                                                                *)
CatchBlock_RetryTimeout(error, attempts, maxAttempts) ==
    IF error.message = NETWORK_ERROR
        THEN [do |-> "throw", error |-> error]
    ELSE IF attempts < maxAttempts
        THEN [do |-> "delay", error |-> error]
    ELSE [do |-> "exhausted", error |-> error]

(* The catch block of the attempt loop: what it does with `error` after   *)
(* `attempts` attempts.  "throw": the request fails now with `error`;     *)
(* "delay": back off, then loop; "exhausted": leave the loop and throw    *)
(* lastError.                                                             *)
CatchBlock(error, attempts, maxAttempts) ==
    IF error.name = "AbortError"
        THEN [do |-> "throw", error |-> Err("Error", TIMEOUT_ERROR)]
    ELSE IF error.message = NETWORK_ERROR
        THEN [do |-> "throw", error |-> error]
    ELSE IF attempts < maxAttempts
        THEN [do |-> "delay", error |-> error]
    ELSE [do |-> "exhausted", error |-> error]

(* ----- state after construction ----- *)
ZeroMetrics == [totalRequests |-> 0, successfulRequests |-> 0,
                failedRequests |-> 0, cacheHits |-> 0, cacheMisses |-> 0]

InitService ==
    /\ now = 0
    /\ isOnline \in BOOLEAN
    /\ storageCache = <<>>
    /\ storageHistory = <<>>
    /\ cache = <<>>
    /\ pendingRequests = [k \in CacheKeys |-> 0]
    /\ requests = <<>>
    /\ calls = {}
    /\ metrics = ZeroMetrics

Init == InitService /\ MixerIdle


(* ----- the request machine ----- *)
(* A request is one invocation of _makeApiRequest by analyzeAudio(url);   *)
(* its cacheKey is KeyOf(url).  pc: "fetch" awaiting fetch(), "body"      *)
(* awaiting response.text() or response.json(), "delay" awaiting the      *)
(* backoff timer, "done" settled.  timerAt is the deadline of timeoutId,  *)
(* 0 when the timer is not armed; aborted is controller.signal.aborted;   *)
(* responseOk is response.ok of the response being read; delayUntil is    *)
(* the deadline of the backoff timer, 0 when none is set; failures counts *)
(* the attempts that ended in the catch block.  kind tells the caller:    *)
(* "analyze" for analyzeAudio, "recommendations" for getRecommendations,  *)
(* whose url field holds the analysis.                                    *)
NewRequest(u, timeout, retry, t) ==
    [kind |-> "analyze", url |-> u, retry |-> retry, maxAttempts |-> maxAttemptsOf(retry),
     attempts |-> 1, failures |-> 0, pc |-> "fetch", timerAt |-> t + timeout,
     aborted |-> FALSE, responseOk |-> FALSE, delayUntil |-> 0,
     ok |-> FALSE, error |-> NoError, data |-> NullData]

NewCall(u, role, req) ==
    [url |-> u, role |-> role, req |-> req,
     done |-> FALSE, ok |-> FALSE, data |-> NullData, error |-> NoError]

(* callers that are released without the error of the request *)
SettleCalls_Swallow(cs, r, ok, data, error) ==
    {IF c.req = r /\ ~c.done
     THEN [c EXCEPT !.done = TRUE, !.ok = ok, !.error = NoError,
              !.data = IF ~ok THEN NullData
                       ELSE IF c.role = "owner" THEN wrapResponse(data, FALSE)
                       ELSE data]
     ELSE c : c \in cs}

(* What the callers awaiting request r receive when it settles: the owner *)
(* returns _wrapResponse(response, false) or rethrows the error; a caller *)
(* that joined holds requestPromise itself.                               *)
SettleCalls(cs, r, ok, data, error) ==
    {IF c.req = r /\ ~c.done
     THEN [c EXCEPT !.done = TRUE, !.ok = ok, !.error = error,
              !.data = IF ~ok THEN NullData
                       ELSE IF c.role = "owner" THEN wrapResponse(data, FALSE)
                       ELSE data]
     ELSE c : c \in cs}

HistoryEntry(u, data, t) == [type |-> "analyze_url", url |-> u, result |-> data, timestamp |-> t]

(* a clean-up that leaves the entry in place *)
deletePending_Keep(pending, key) == pending

(* `this.pendingRequests.delete(cacheKey)` *)
deletePending(pending, key) == [pending EXCEPT ![key] = 0]

(* The helpers below take `b`, the requests, calls, metrics, cache and    *)
(* pendingRequests as the running handler has them so far, and set the    *)
(* next state.                                                            *)
Base == [requests |-> requests, calls |-> calls, metrics |-> metrics, cache |-> cache,
         pending |-> pendingRequests]

(* The request of getRecommendations fulfils: lines 203-206 *)
SucceedRecommendations(b, r, rq, data) ==
    /\ requests' = [b.requests EXCEPT ![r] = [rq EXCEPT !.pc = "done", !.ok = TRUE, !.data = data]]
    /\ cache' = addToCache(b.cache, RecKey(rq.url), data, CACHE_TTL, now)
    /\ storageCache' = saveCacheToStorage(cache')
    /\ calls' = SettleCalls(b.calls, r, TRUE, data, NoError)
    /\ metrics' = b.metrics
    /\ pendingRequests' = b.pending
    /\ UNCHANGED storageHistory

(* a catch block that caches the local recommendations it returns *)
RejectRecommendations_Cached(b, r, rq, error) ==
    /\ requests' = [b.requests EXCEPT ![r] = [rq EXCEPT !.pc = "done", !.ok = FALSE, !.error = error]]
    /\ calls' = SettleCalls(b.calls, r, TRUE, LocalRecommendations(rq.url), NoError)
    /\ metrics' = b.metrics
    /\ cache' = addToCache(b.cache, RecKey(rq.url), LocalRecommendations(rq.url), CACHE_TTL, now)
    /\ storageCache' = saveCacheToStorage(cache')
    /\ pendingRequests' = b.pending
    /\ UNCHANGED storageHistory

(* The request of getRecommendations rejects: the catch block, lines      *)
(* 208-212, returns the local recommendations.                            *)
RejectRecommendations(b, r, rq, error) ==
    /\ requests' = [b.requests EXCEPT ![r] = [rq EXCEPT !.pc = "done", !.ok = FALSE, !.error = error]]
    /\ calls' = SettleCalls(b.calls, r, TRUE, LocalRecommendations(rq.url), NoError)
    /\ metrics' = b.metrics
    /\ cache' = b.cache
    /\ pendingRequests' = b.pending
    /\ UNCHANGED <<storageCache, storageHistory>>

(* a success that the catch block counts as a failure as well *)
Succeed_CountsBoth(b, r, rq, data) ==
    IF rq.kind = "recommendations" THEN SucceedRecommendations(b, r, rq, data)
    ELSE
    /\ requests' = [b.requests EXCEPT ![r] = [rq EXCEPT !.pc = "done", !.ok = TRUE, !.data = data]]
    /\ metrics' = [b.metrics EXCEPT !.successfulRequests = @ + 1, !.failedRequests = @ + 1]
    /\ cache' = addToCache(b.cache, KeyOf(rq.url), data, CACHE_TTL, now)
    /\ storageCache' = saveCacheToStorage(cache')
    /\ storageHistory' = addToHistory(storageHistory, HistoryEntry(rq.url, data, now))
    /\ calls' = SettleCalls(b.calls, r, TRUE, data, NoError)
    /\ pendingRequests' = deletePending(b.pending, KeyOf(rq.url))

(* requestPromise fulfils with `data`: lines 87-105 and the finally block *)
Succeed(b, r, rq, data) ==
    IF rq.kind = "recommendations" THEN SucceedRecommendations(b, r, rq, data)
    ELSE
    /\ requests' = [b.requests EXCEPT ![r] = [rq EXCEPT !.pc = "done", !.ok = TRUE, !.data = data]]
    /\ metrics' = [b.metrics EXCEPT !.successfulRequests = @ + 1]
    /\ cache' = addToCache(b.cache, KeyOf(rq.url), data, CACHE_TTL, now)
    /\ storageCache' = saveCacheToStorage(cache')
    /\ storageHistory' = addToHistory(storageHistory, HistoryEntry(rq.url, data, now))
    /\ calls' = SettleCalls(b.calls, r, TRUE, data, NoError)
    /\ pendingRequests' = deletePending(b.pending, KeyOf(rq.url))

(* requestPromise rejects with `error`: the catch and finally blocks *)
Reject(b, r, rq, error) ==
    IF rq.kind = "recommendations" THEN RejectRecommendations(b, r, rq, error)
    ELSE
    /\ requests' = [b.requests EXCEPT ![r] = [rq EXCEPT !.pc = "done", !.ok = FALSE, !.error = error]]
    /\ metrics' = [b.metrics EXCEPT !.failedRequests = @ + 1]
    /\ calls' = SettleCalls(b.calls, r, FALSE, NullData, error)
    /\ pendingRequests' = deletePending(b.pending, KeyOf(rq.url))
    /\ cache' = b.cache
    /\ UNCHANGED <<storageCache, storageHistory>>

(* An attempt of request r ended with `error`: the catch block of the     *)
(* loop, then either the backoff delay, or the end of the loop            *)
(* (clearTimeout, throw lastError), or the throw out of the loop.         *)
AttemptFailed(b, r, rq0, error) ==
    LET rq == [rq0 EXCEPT !.responseOk = FALSE, !.failures = @ + 1]
        lastError == error
        c == CatchBlock(error, rq.attempts, rq.maxAttempts)
    IN  CASE c.do = "delay" ->
               /\ requests' = [b.requests EXCEPT ![r] =
                      [rq EXCEPT !.pc = "delay",
                                 !.delayUntil = now + BackoffDelay(rq.attempts)]]
               /\ calls' = b.calls
               /\ metrics' = b.metrics
               /\ cache' = b.cache
               /\ pendingRequests' = b.pending
               /\ UNCHANGED <<storageCache, storageHistory>>
          [] c.do = "exhausted" ->
               Reject(b, r, [rq EXCEPT !.timerAt = 0], lastError)
          [] OTHER ->
               Reject(b, r, rq, c.error)

(* The start of an attempt: the connectivity check, then fetch(); fetch   *)
(* with a signal that is already aborted rejects with AbortError.         *)
BeginAttempt(b, r, rq) ==
    IF ~isOnline THEN AttemptFailed(b, r, rq, Err("Error", NETWORK_ERROR))
    ELSE IF rq.aborted THEN AttemptFailed(b, r, rq, AbortError)
    ELSE /\ requests' = [b.requests EXCEPT ![r] = [rq EXCEPT !.pc = "fetch"]]
         /\ calls' = b.calls
         /\ metrics' = b.metrics
         /\ cache' = b.cache
         /\ pendingRequests' = b.pending
         /\ UNCHANGED <<storageCache, storageHistory>>

(* ----- analyzeAudio(url, options) up to its first suspension ----- *)
analyzeAudio(u, forceRefresh, timeoutOpt, retry) ==
    /\ UNCHANGED <<now, isOnline>>
    /\ IF u \notin ValidUrls
       THEN /\ calls' = calls \cup {[NewCall(u, "invalid", 0)
                           EXCEPT !.done = TRUE, !.error = Err("Error", INVALID_URL)]}
            /\ UNCHANGED <<cache, pendingRequests, requests, metrics,
                           storageCache, storageHistory>>
       ELSE
        LET cacheKey == KeyOf(u)
            cached == getFromCache(cache, cacheKey, now)
            cache1 == cacheAfterGet(cache, cacheKey, now)
        IN  IF ServedFromCache(cached, forceRefresh)
            THEN /\ metrics' = [metrics EXCEPT !.cacheHits = @ + 1]
                 /\ calls' = calls \cup {[NewCall(u, "cache", 0)
                                EXCEPT !.done = TRUE, !.ok = TRUE,
                                       !.data = wrapResponse(cached, TRUE)]}
                 /\ cache' = cache1
                 /\ UNCHANGED <<pendingRequests, requests, storageCache, storageHistory>>
            ELSE IF HasPending(pendingRequests, cacheKey)
            THEN /\ metrics' = [metrics EXCEPT !.cacheMisses = @ + 1]
                 /\ calls' = calls \cup {NewCall(u, "joiner", pendingRequests[cacheKey])}
                 /\ cache' = cache1
                 /\ UNCHANGED <<pendingRequests, requests, storageCache, storageHistory>>
            ELSE LET r == Len(requests) + 1
                     rq == NewRequest(u, EffectiveTimeout(timeoutOpt), retry, now)
                     b == [requests |-> Append(requests, rq),
                           calls |-> calls \cup {NewCall(u, "owner", r)},
                           metrics |-> [metrics EXCEPT !.cacheMisses = @ + 1,
                                                       !.totalRequests = @ + 1],
                           cache |-> cache1,
                           pending |-> [pendingRequests EXCEPT ![cacheKey] = r]]
                 IN  BeginAttempt(b, r, rq)


(* ----- getRecommendations(analysisData, options) up to its first       *)
(* suspension: a cached value is returned as it is; otherwise the request *)
(* is made, with retries, outside pendingRequests.                        *)
getRecommendations(a, forceRefresh, timeoutOpt) ==
    /\ UNCHANGED <<now, isOnline>>
    /\ LET cacheKey == RecKey(a)
           cached == getFromCache(cache, cacheKey, now)
           cache1 == cacheAfterGet(cache, cacheKey, now)
       IN  IF ServedFromCache(cached, forceRefresh)
           THEN /\ calls' = calls \cup {[NewCall(a, "reccache", 0)
                               EXCEPT !.done = TRUE, !.ok = TRUE, !.data = cached]}
                /\ cache' = cache1
                /\ UNCHANGED <<pendingRequests, requests, metrics,
                               storageCache, storageHistory>>
           ELSE LET r == Len(requests) + 1
                    rq == [NewRequest(a, RecTimeout(timeoutOpt), TRUE, now)
                               EXCEPT !.kind = "recommendations"]
                    b == [requests |-> Append(requests, rq),
                          calls |-> calls \cup {NewCall(a, "rec", r)},
                          metrics |-> [metrics EXCEPT !.totalRequests = @ + 1],
                          cache |-> cache1,
                          pending |-> pendingRequests]
                IN  BeginAttempt(b, r, rq)

(* ----- the provider answers, the timers fire ----- *)
Statuses == {200, 404, 429, 500}
ResponseOk(status) == status >= 200 /\ status <= 299

(* fetch() resolves with a response: clearTimeout(timeoutId), then the    *)
(* body is read (response.text() or response.json()).                     *)
FetchResolve(r, status) ==
    /\ r \in 1..Len(requests)
    /\ requests[r].pc = "fetch"
    /\ requests' = [requests EXCEPT ![r].pc = "body",
                                    ![r].responseOk = ResponseOk(status),
                                    ![r].timerAt = 0]
    /\ UNCHANGED <<now, isOnline, cache, pendingRequests, calls, metrics,
                   storageCache, storageHistory>>

(* fetch() rejects: the network failed *)
FetchReject(r) ==
    /\ r \in 1..Len(requests)
    /\ requests[r].pc = "fetch"
    /\ AttemptFailed(Base, r, requests[r], FetchTypeError)
    /\ UNCHANGED <<now, isOnline>>

(* The body of a response with `status` has been read: lines 350-374 *)
BodyComplete(r, status, body, ver) ==
    /\ r \in 1..Len(requests)
    /\ requests[r].pc = "body"
    /\ requests[r].responseOk = ResponseOk(status)
    /\ UNCHANGED <<now, isOnline>>
    /\ LET rq == requests[r]
       IN  IF ~rq.responseOk
           THEN AttemptFailed(Base, r, rq, ErrorOfStatus(status))
           ELSE IF body = "syntax"
           THEN AttemptFailed(Base, r, rq, JsonSyntaxError)
           ELSE IF InvalidStructure(body)
           THEN AttemptFailed(Base, r, rq, Err("Error", INVALID_RESPONSE))
           ELSE Succeed(Base, r, [rq EXCEPT !.responseOk = FALSE], Data(rq.url, ver))

(* timeoutId fires: controller.abort(); a fetch in flight rejects with    *)
(* AbortError.                                                            *)
TimerFire(r) ==
    /\ r \in 1..Len(requests)
    /\ requests[r].timerAt # 0
    /\ now >= requests[r].timerAt
    /\ UNCHANGED <<now, isOnline>>
    /\ LET rq == [requests[r] EXCEPT !.timerAt = 0, !.aborted = TRUE]
       IN  IF rq.pc = "fetch"
           THEN AttemptFailed(Base, r, rq, AbortError)
           ELSE /\ requests' = [requests EXCEPT ![r] = rq]
                /\ UNCHANGED <<cache, pendingRequests, calls, metrics,
                               storageCache, storageHistory>>

(* The backoff timer fires: the loop goes round, attempts++ *)
DelayExpire(r) ==
    /\ r \in 1..Len(requests)
    /\ requests[r].pc = "delay"
    /\ now >= requests[r].delayUntil
    /\ UNCHANGED <<now, isOnline>>
    /\ LET rq == [requests[r] EXCEPT !.attempts = @ + 1, !.delayUntil = 0]
       IN  BeginAttempt(Base, r, rq)

(* window 'online' / 'offline' events *)
SetOnline(v) ==
    /\ isOnline # v
    /\ isOnline' = v
    /\ UNCHANGED <<now, cache, pendingRequests, requests, calls, metrics,
                   storageCache, storageHistory>>

(* ----- the clock ----- *)
Deadlines ==
    {requests[r].timerAt : r \in {q \in 1..Len(requests) : requests[q].timerAt # 0}}
    \cup {requests[r].delayUntil : r \in {q \in 1..Len(requests) : requests[q].pc = "delay"}}

AdvanceTo(t) ==
    /\ t > now
    /\ \A d \in Deadlines : t <= d
    /\ now' = t
    /\ UNCHANGED <<isOnline, cache, pendingRequests, requests, calls, metrics,
                   storageCache, storageHistory>>

(* Time passes until the next timer is due. *)
TickToDeadline == \E t \in Deadlines : AdvanceTo(t)

(* Time passes by TickStep, within the first MaxTime milliseconds. *)
TickStepped == now + TickStep <= MaxTime /\ AdvanceTo(now + TickStep)

(* ----- specifications ----- *)
ReqIds == 1..MaxRequests

(* A call that is new, within the bounds. *)
Call(U, T) ==
    \E u \in U, f \in BOOLEAN, t \in T, rt \in BOOLEAN :
        /\ analyzeAudio(u, f, t, rt)
        /\ calls' # calls
        /\ Cardinality(calls') <= MaxCalls
        /\ Len(requests') <= MaxRequests

(* Spec: up to MaxCalls distinct calls and MaxRequests requests run       *)
(* concurrently.  The connectivity is fixed from the start, the calls are *)
(* made in the first MaxTime milliseconds with the default timeout, an    *)
(* attempt ends with a 200 response whose body is an object, with a       *)
(* rejected fetch or with the timeout, and the clock moves from timer to  *)
(* timer.  SpecTimed has the other answers of the provider.               *)
Urls == {"A", "B", "C"}
Next ==
    \/ /\ now <= MaxTime /\ Call(Urls, {0})
       /\ UNCHANGED mixerVars
    \/ /\ \E r \in ReqIds, st \in {200} : FetchResolve(r, st)
       /\ UNCHANGED mixerVars
    \/ /\ \E r \in ReqIds : FetchReject(r)
       /\ UNCHANGED mixerVars
    \/ /\ \E r \in ReqIds, st \in {200}, body \in {"object"}, v \in 1..MaxVer :
              BodyComplete(r, st, body, v)
       /\ UNCHANGED mixerVars
    \/ /\ \E r \in ReqIds : TimerFire(r)
       /\ UNCHANGED mixerVars
    \/ /\ \E r \in ReqIds : DelayExpire(r)
       /\ UNCHANGED mixerVars
    \/ TickToDeadline /\ UNCHANGED mixerVars

Spec == Init /\ [][Next]_vars

(* SpecTimed: a single call, with every input, every answer of the        *)
(* provider, the connectivity changing and the clock also moving in steps *)
(* of TickStep.                                                           *)
TimeoutOptions == {0, ShortTimeout}
NextTimed ==
    \/ /\ calls = {} /\ Call(UrlNames, TimeoutOptions)
       /\ UNCHANGED mixerVars
    \/ /\ \E r \in ReqIds, st \in Statuses : FetchResolve(r, st)
       /\ UNCHANGED mixerVars
    \/ /\ \E r \in ReqIds : FetchReject(r)
       /\ UNCHANGED mixerVars
    \/ /\ \E r \in ReqIds, st \in Statuses, body \in BodyKinds, v \in 1..MaxVer :
              BodyComplete(r, st, body, v)
       /\ UNCHANGED mixerVars
    \/ /\ \E r \in ReqIds : TimerFire(r)
       /\ UNCHANGED mixerVars
    \/ /\ \E r \in ReqIds : DelayExpire(r)
       /\ UNCHANGED mixerVars
    \/ /\ \E v \in BOOLEAN : SetOnline(v)
       /\ UNCHANGED mixerVars
    \/ TickToDeadline /\ UNCHANGED mixerVars
    \/ TickStepped /\ UNCHANGED mixerVars

SpecTimed == Init /\ [][NextTimed]_vars

(* SpecTimedFair: SpecTimed where the event loop runs the timers that are *)
(* due and time passes; moreover a response that has arrived is read to   *)
(* its end.  Nothing makes the provider answer a fetch.                   *)
SpecTimedFair ==
    /\ SpecTimed
    /\ WF_vars(TickToDeadline)
    /\ \A r \in ReqIds :
          /\ WF_vars(TimerFire(r))
          /\ WF_vars(DelayExpire(r))
          /\ WF_vars(\E st \in Statuses, body \in BodyKinds, v \in 1..MaxVer :
                         BodyComplete(r, st, body, v))


(* ======================= properties ======================= *)
InFlight(r) == requests[r].pc # "done"
Payload(d) == [src |-> d.src, ver |-> d.ver]

(* C1: under any interleaving of analyzeAudio calls (forceRefresh or not) *)
(* and provider completions, no two provider requests are in flight for   *)
(* the same cache key.                                                    *)
C1_OneInFlightPerKey ==
    \A r1, r2 \in 1..Len(requests) :
        (r1 # r2 /\ InFlight(r1) /\ InFlight(r2))
            => KeyOf(requests[r1].url) # KeyOf(requests[r2].url)

(* a call for another identifier with the same key has joined a request   *)
(* that is still in flight                                                *)
C1_Witness ==
    \E c1, c2 \in calls :
        /\ c1.role = "owner" /\ c2.role = "joiner" /\ c2.req = c1.req
        /\ c1.url # c2.url
        /\ InFlight(c1.req)

(* C2: the calls that are concurrent for one key share one provider       *)
(* request, and the callers of one request settle together with the same  *)
(* outcome: the same result, or the same error.                           *)
C2_SameOutcome ==
    \A c1, c2 \in calls :
        /\ (c1.req # 0 /\ c2.req # 0 /\ ~c1.done /\ ~c2.done
               /\ KeyOf(c1.url) = KeyOf(c2.url)) => c1.req = c2.req
        /\ (c1.req # 0 /\ c1.req = c2.req) =>
               /\ c1.done = c2.done
               /\ c1.ok = c2.ok
               /\ c1.error = c2.error
               /\ c1.data = c2.data

(* C3: pendingRequests holds a key exactly while the request registered   *)
(* for it has not settled, and the entry is that request.                 *)
C3_PendingIffInFlight ==
    /\ \A k \in CacheKeys :
           pendingRequests[k] # 0 =>
               /\ pendingRequests[k] \in 1..Len(requests)
               /\ InFlight(pendingRequests[k])
               /\ KeyOf(requests[pendingRequests[k]].url) = k
    /\ \A r \in 1..Len(requests) :
           InFlight(r) => pendingRequests[KeyOf(requests[r].url)] = r

(* a request that an owner started and another caller joined has failed,  *)
(* both callers are settled and the entry of its key is gone              *)
C3_Witness ==
    \E c1, c2 \in calls :
        /\ c1.role = "owner" /\ c2.role = "joiner" /\ c2.req = c1.req
        /\ c1.done /\ c2.done /\ ~c1.ok
        /\ ~InFlight(c1.req)
        /\ pendingRequests[KeyOf(c1.url)] = 0

(* C10: a call without forceRefresh that finds an unexpired entry returns *)
(* the entry's value tagged cached = true; it starts no request, leaves   *)
(* pendingRequests, the cache and the storage as they are and increments  *)
(* cacheHits only.                                                        *)
C10_CacheHitFrame ==
    [][\A u \in Urls, rt \in BOOLEAN :
          LET cached == getFromCache(cache, KeyOf(u), now)
          IN  (cached # NullData /\ analyzeAudio(u, FALSE, 0, rt)) =>
                 /\ calls' = calls \cup
                        {[url |-> u, role |-> "cache", req |-> 0, done |-> TRUE,
                          ok |-> TRUE, error |-> NoError,
                          data |-> [src |-> cached.src, ver |-> cached.ver,
                                    cached |-> "true"]]}
                 /\ requests' = requests
                 /\ pendingRequests' = pendingRequests
                 /\ cache' = cache
                 /\ storageCache' = storageCache
                 /\ storageHistory' = storageHistory
                 /\ metrics' = [metrics EXCEPT !.cacheHits = @ + 1]]_vars

(* a call was served from the cache with the value that the owner of a   *)
(* settled request had received from the provider                         *)
C10_Witness ==
    \E c, o \in calls :
        /\ c.role = "cache" /\ c.done /\ c.ok /\ c.data.cached = "true"
        /\ o.role = "owner" /\ o.done /\ o.ok /\ o.data.cached = "false"
        /\ Payload(c.data) = Payload(o.data)
        /\ metrics.cacheHits = 1 /\ metrics.totalRequests = 1

(* C4: every request eventually settles, its callers with it, and its     *)
(* pendingRequests entry is eventually removed, also when the provider    *)
(* never answers an attempt.                                              *)
C4_EventuallySettles ==
    \A r \in ReqIds :
        (IF r <= Len(requests) THEN InFlight(r) ELSE FALSE) ~>
            (IF r <= Len(requests)
                THEN /\ ~InFlight(r)
                     /\ \A c \in calls : c.req = r => c.done
                     /\ \A k \in CacheKeys : pendingRequests[k] # r
                ELSE FALSE)

(* C5: while an attempt awaits the provider's answer to fetch(), the      *)
(* first attempt or a retry, the timeout timer is armed and not yet past. *)
C5_AttemptBoundedByTimeout ==
    \A r \in 1..Len(requests) :
        requests[r].pc = "fetch" =>
            (requests[r].timerAt # 0 /\ now <= requests[r].timerAt)

(* The timeout timer fires while request r awaits fetch(). *)
TimeoutDuringFetch(r) ==
    /\ requests[r].pc = "fetch"
    /\ ~requests[r].aborted
    /\ requests'[r].aborted

(* C6 as claimed: a timeout with retry enabled and attempts left is       *)
(* followed by the backoff delay and a further attempt.                   *)
C6_TimeoutIsRetried ==
    [][\A r \in 1..Len(requests) :
          (TimeoutDuringFetch(r) /\ requests[r].retry
              /\ requests[r].attempts < requests[r].maxAttempts)
          => requests'[r].pc = "delay"]_vars

(* C6 amended: a timeout fails the request at once with TIMEOUT_ERROR,    *)
(* without backoff and without a further attempt, whatever the retry      *)
(* setting and the attempts made; so does the attempt that starts with    *)
(* the signal already aborted.                                            *)
C6_TimeoutFailsAtOnce ==
    [][\A r \in 1..Len(requests) :
          LET a == requests[r]
              b == requests'[r]
              failed == /\ b.pc = "done" /\ ~b.ok
                        /\ b.error = Err("Error", TIMEOUT_ERROR)
                        /\ b.delayUntil = 0
          IN  /\ TimeoutDuringFetch(r) => (failed /\ b.attempts = a.attempts)
              /\ (a.pc = "delay" /\ a.aborted /\ isOnline /\ b.pc # "delay")
                    => (failed /\ b.attempts = a.attempts + 1)]_vars

(* a request with retry enabled failed with TIMEOUT_ERROR on its first    *)
(* attempt                                                                *)
C6_Witness ==
    \E r \in 1..Len(requests) :
        /\ requests[r].pc = "done" /\ requests[r].retry
        /\ requests[r].error = Err("Error", TIMEOUT_ERROR)
        /\ requests[r].attempts = 1 /\ requests[r].maxAttempts = RETRY_ATTEMPTS + 1

(* C7: a malformed response (the parsed body is not an object) and the    *)
(* client being offline fail the request at once: the request is settled  *)
(* by that very step, whatever the retry setting.                         *)
C7_NonRetryableFailsAtOnce ==
    [][\A r \in 1..Len(requests) :
          \/ \E v \in 1..MaxVer : BodyComplete(r, 200, "nonobject", v)
          \/ (DelayExpire(r) /\ ~isOnline)
          => requests'[r].pc = "done"]_vars

(* C8: a request makes at most maxAttempts = (retry ? RETRY_ATTEMPTS + 1  *)
(* : 1) attempts; an attempt is under way only when all the attempts      *)
(* before it failed, and a request that succeeded did so with its first   *)
(* successful attempt, the last one made.                                 *)
C8_AttemptBound ==
    \A r \in 1..Len(requests) :
        LET a == requests[r]
        IN  /\ a.attempts >= 1
            /\ a.attempts <= (IF a.retry THEN RETRY_ATTEMPTS + 1 ELSE 1)
            /\ a.pc \in {"fetch", "body"} => a.failures = a.attempts - 1
            /\ a.pc = "delay" => (a.failures = a.attempts /\ a.attempts < a.maxAttempts)
            /\ a.pc = "done" => a.failures = (IF a.ok THEN a.attempts - 1 ELSE a.attempts)

(* two attempts failed, the third succeeded: success after 3 attempts *)
C8_Witness ==
    \E r \in 1..Len(requests) :
        /\ requests[r].pc = "done" /\ requests[r].ok
        /\ requests[r].failures = 2 /\ requests[r].attempts = 3

(* The error of the attempt whose response has `status` and `body`. *)
AttemptError(status, body) ==
    IF ~ResponseOk(status) THEN ErrorOfStatus(status)
    ELSE IF body = "syntax" THEN JsonSyntaxError
    ELSE Err("Error", INVALID_RESPONSE)

(* C9: the delay set after the k-th failed attempt is RETRY_DELAY *       *)
(* 2^(k-1) and the next attempt starts only when it has passed; the       *)
(* failure of the last allowed attempt settles the request in the same    *)
(* step, with the error of that attempt.                                  *)
C9_Backoff ==
    [][\A r \in 1..Len(requests) :
          LET a == requests[r]
              b == requests'[r]
          IN  /\ (a.pc # "delay" /\ b.pc = "delay") =>
                    /\ b.delayUntil = now + RETRY_DELAY * 2 ^ (a.failures)
                    /\ b.failures = a.failures + 1
                    /\ b.attempts = a.attempts /\ a.attempts = b.failures
              /\ b.attempts # a.attempts =>
                    /\ a.pc = "delay" /\ now >= a.delayUntil
                    /\ b.attempts = a.attempts + 1
              /\ (a.attempts = a.maxAttempts /\ FetchReject(r)) =>
                    (b.pc = "done" /\ ~b.ok /\ b.error = FetchTypeError /\ now' = now)
              /\ \A st \in Statuses, body \in BodyKinds :
                    (/\ a.attempts = a.maxAttempts
                     /\ ~(ResponseOk(st) /\ body = "object")
                     /\ \E v \in 1..MaxVer : BodyComplete(r, st, body, v)) =>
                    (b.pc = "done" /\ ~b.ok /\ b.error = AttemptError(st, body)
                        /\ now' = now)]_vars

(* the third attempt failed after the delays of 1 and 2 times RETRY_DELAY *)
(* and the request failed with the error of that attempt                  *)
C9_Witness ==
    \E r \in 1..Len(requests) :
        /\ requests[r].pc = "done" /\ ~requests[r].ok
        /\ requests[r].attempts = 3 /\ requests[r].maxAttempts = 3
        /\ requests[r].error = Err("Error", API_UNAVAILABLE)
        /\ now >= RETRY_DELAY + 2 * RETRY_DELAY


(* ----- the persisted cache, construction, clearStorage ----- *)
(* The map that `items.forEach(item => map.set(item.key, ...))` builds    *)
(* from an empty map: the keys in the order of their first record, each   *)
(* with the fields of its last record.                                    *)
MapOfRecords(items) ==
    LET firsts == SelectSeq([i \in 1..Len(items) |-> i],
                      LAMBDA i : \A j \in 1..(i - 1) : items[j].key # items[i].key)
        last(i) == LET same == {j \in i..Len(items) : items[j].key = items[i].key}
                   IN  CHOOSE j \in same : \A k \in same : k <= j
    IN  [n \in 1..Len(firsts) |->
            LET item == items[last(firsts[n])]
            IN  [key |-> items[firsts[n]].key,
                 entry |-> [data |-> item.data, cachedAt |-> item.cachedAt,
                            expiresAt |-> item.expiresAt]]]

(* a load that keeps the expired records *)
loadCacheFromStorage_All(items, t) == MapOfRecords(items)

(* _loadCacheFromStorage into the empty map of the constructor: the       *)
(* records of the persisted array in order, a record whose expiresAt is   *)
(* past being skipped.  An absent store reads as the empty array.         *)
loadCacheFromStorage(items, t) ==
    MapOfRecords(SelectSeq(items, LAMBDA item : ~Expired(item, t)))

(* Persisted stores a coordinator may be constructed over.  The filler    *)
(* records are analyses of the URLs https://f01 .. https://f50.           *)
InitNow == CACHE_TTL + 1000
FillTime == InitNow - CACHE_TTL + 1000
FillerKey(i) ==
    generateCacheKey("analyze", HttpsPrefix \o <<102, 48 + (i \div 10), 48 + (i % 10)>>)
Record(key, data, s, e) == [key |-> key, data |-> data, cachedAt |-> s, expiresAt |-> e]
FilledStore(n) ==
    [i \in 1..n |->
        IF i = 1 THEN Record(KeyOf("A"), Data("A", 1), FillTime, FillTime + CACHE_TTL)
        ELSE Record(FillerKey(i), Data("filler", i), FillTime, FillTime + CACHE_TTL)]
(* a full store whose first record was stored again, in place, when all  *)
(* but the last of the others had been stored                             *)
RefreshTime == FillTime + 1000
LastFillTime == RefreshTime + 1000
FullStore ==
    [i \in 1..MAX_CACHE_ENTRIES |->
        IF i = 1 THEN Record(KeyOf("A"), Data("A", 1), RefreshTime, RefreshTime + CACHE_TTL)
        ELSE IF i = MAX_CACHE_ENTRIES
        THEN Record(FillerKey(i), Data("filler", i), LastFillTime, LastFillTime + CACHE_TTL)
        ELSE Record(FillerKey(i), Data("filler", i), FillTime, FillTime + CACHE_TTL)]
(* a record that is expired at InitNow, one without expiresAt, one that   *)
(* expires at InitNow exactly                                             *)
MixedStore ==
    << Record(KeyOf("A"), Data("A", 1), 0, CACHE_TTL),
       Record(KeyOf("C"), Data("C", 1), 500, 0),
       Record(KeyOf("D"), Data("D", 1), 1000, 1000 + CACHE_TTL) >>
PersistedStores == {<<>>, MixedStore, FilledStore(MAX_CACHE_ENTRIES - 1), FullStore}

(* The state after construction over a persisted store, at InitNow. *)
InitStore ==
    /\ now = InitNow
    /\ isOnline = TRUE
    /\ storageCache \in PersistedStores
    /\ storageHistory = <<>>
    /\ cache = loadCacheFromStorage(storageCache, now)
    /\ pendingRequests = [k \in CacheKeys |-> 0]
    /\ requests = <<>>
    /\ calls = {}
    /\ metrics = ZeroMetrics
    /\ MixerIdle

(* The page is loaded again while no request is in flight: a new          *)
(* coordinator is constructed over the store the previous one left.       *)
Reload ==
    /\ \A r \in 1..Len(requests) : requests[r].pc = "done"
    /\ cache' = loadCacheFromStorage(storageCache, now)
    /\ pendingRequests' = [k \in CacheKeys |-> 0]
    /\ metrics' = ZeroMetrics
    /\ <<cache', pendingRequests', metrics'>> # <<cache, pendingRequests, metrics>>
    /\ UNCHANGED <<now, isOnline, requests, calls, storageCache, storageHistory>>

(* clearStorage() *)
clearStorage ==
    /\ cache' = <<>>
    /\ pendingRequests' = [k \in CacheKeys |-> 0]
    /\ storageCache' = <<>>
    /\ storageHistory' = <<>>
    /\ UNCHANGED <<now, isOnline, requests, calls, metrics>>

(* Time passes until an entry of the cache expires, or one millisecond    *)
(* more, up to time `horizon`.                                            *)
TickToExpiry(horizon) ==
    \E e \in {cache[i].entry.expiresAt : i \in 1..Len(cache)} \ {0}, d \in {0, 1} :
        /\ e + d <= horizon
        /\ AdvanceTo(e + d)

(* SpecStore: coordinators constructed over persisted stores, empty to    *)
(* full; up to MaxStoreCalls calls, analyzeAudio without retry and        *)
(* getRecommendations, one request in flight at a time, the provider      *)
(* answering 200 with an object or the fetch of an analysis failing; the  *)
(* store is cleared, the page reloaded, and the clock moves to the expiry *)
(* of the entries that were persisted.                                    *)
MaxStoreCalls == 2
StoreHorizon == InitNow + 1
StoreUrls == {"A", "C", "D"}
(* identifiers analyzeAudio refuses: an ftp URL, the empty string, a     *)
(* value that is not a string                                             *)
BadInputs == {"F", "E", "N"}
StoreReqIds == 1..MaxStoreCalls
StoreCall ==
    \E u \in StoreUrls \cup BadInputs, f \in BOOLEAN :
        /\ analyzeAudio(u, f, 0, FALSE)
        /\ calls' # calls
        /\ Cardinality(calls') <= MaxStoreCalls
        /\ Len(requests') <= MaxStoreCalls
        /\ \/ Len(requests') = Len(requests)
           \/ \A r \in 1..Len(requests) : requests[r].pc = "done"
RecCall ==
    \E a \in RecNames, f \in BOOLEAN :
        /\ getRecommendations(a, f, 0)
        /\ calls' # calls
        /\ Cardinality(calls') <= MaxStoreCalls
        /\ Len(requests') <= MaxStoreCalls
        /\ \/ Len(requests') = Len(requests)
           \/ \A r \in 1..Len(requests) : requests[r].pc = "done"
NextStore ==
    \/ StoreCall /\ UNCHANGED mixerVars
    \/ RecCall /\ UNCHANGED mixerVars
    \/ /\ \E r \in StoreReqIds : FetchResolve(r, 200)
       /\ UNCHANGED mixerVars
    \/ /\ \E r \in StoreReqIds : r <= Len(requests) /\ requests[r].kind = "analyze" /\ FetchReject(r)
       /\ UNCHANGED mixerVars
    \/ /\ \E r \in StoreReqIds : BodyComplete(r, 200, "object", MaxVer)
       /\ UNCHANGED mixerVars
    \/ clearStorage /\ UNCHANGED mixerVars
    \/ Reload /\ UNCHANGED mixerVars
    \/ TickToExpiry(StoreHorizon) /\ UNCHANGED mixerVars

SpecStore == InitStore /\ [][NextStore]_vars

(* ----- cache writes ----- *)
(* Request r of the next state settles in this step, started in it or not *)
SettlesNow(r) ==
    /\ requests'[r].pc = "done"
    /\ IF r <= Len(requests) THEN requests[r].pc # "done" ELSE TRUE

(* The call of this step starts request Len(requests) + 1 for url u. *)
StartsRequest(u) ==
    /\ Len(requests') = Len(requests) + 1
    /\ requests'[Len(requests')].url = u
    /\ [url |-> u, role |-> "owner", req |-> Len(requests')] \in
           {[url |-> c.url, role |-> c.role, req |-> c.req] : c \in calls'}

(* The entry of `key` in cache c, as _getFromCache finds it. *)
EntryOf(c, key) == c[IndexOfKey(c, key, 1)].entry

(* C11: a call with forceRefresh and no request pending for its key       *)
(* starts a provider request, an unexpired entry for the key or not; and  *)
(* when a request succeeds while the key has an entry, the entry holds    *)
(* the new result afterwards.                                             *)
C11_ForceRefresh ==
    [][/\ \A u \in StoreUrls, rt \in BOOLEAN :
             (pendingRequests[KeyOf(u)] = 0 /\ analyzeAudio(u, TRUE, 0, rt))
                => StartsRequest(u)
       /\ \A r \in 1..Len(requests) :
             (SettlesNow(r) /\ requests'[r].ok /\ requests[r].kind = "analyze"
                 /\ IndexOfKey(cache, KeyOf(requests[r].url), 1) # 0)
                => getFromCache(cache', KeyOf(requests[r].url), now) = requests'[r].data
      ]_vars

(* a call was served by the unexpired entry of its key, then a request    *)
(* for the same identifier succeeded with another result, which the cache *)
(* holds now                                                              *)
C11_Witness ==
    \E c \in calls, r \in 1..Len(requests) :
        /\ c.role = "cache" /\ c.url \in StoreUrls
        /\ requests[r].kind = "analyze" /\ requests[r].url = c.url
        /\ requests[r].pc = "done" /\ requests[r].ok
        /\ Payload(requests[r].data) # Payload(c.data)
        /\ getFromCache(cache, KeyOf(c.url), now) = requests[r].data

(* C12: the step in which a request succeeds at time s stores the result  *)
(* under the request's key with expiresAt = s + CACHE_TTL and removes the *)
(* pending entry, so the key is in the cache when it leaves               *)
(* pendingRequests; and a call without forceRefresh for a key whose entry *)
(* has not expired is served from the cache and starts nothing.           *)
C12_SuccessIsCached ==
    [][/\ \A r \in 1..Len(requests) :
             (SettlesNow(r) /\ requests'[r].ok /\ requests[r].kind = "analyze") =>
                LET key == KeyOf(requests[r].url)
                IN  /\ pendingRequests'[key] = 0
                    /\ IndexOfKey(cache', key, 1) # 0
                    /\ EntryOf(cache', key) =
                          [data |-> requests'[r].data, cachedAt |-> now,
                           expiresAt |-> now + CACHE_TTL]
       /\ \A u \in StoreUrls, rt \in BOOLEAN :
             (/\ IndexOfKey(cache, KeyOf(u), 1) # 0
              /\ now <= EntryOf(cache, KeyOf(u)).cachedAt + CACHE_TTL
              /\ analyzeAudio(u, FALSE, 0, rt))
             => /\ requests' = requests
                /\ pendingRequests' = pendingRequests
                /\ \E c \in calls' \ calls :
                      /\ c.role = "cache" /\ c.done /\ c.ok
                      /\ Payload(c.data) = Payload(EntryOf(cache, KeyOf(u)).data)
      ]_vars

(* a call was served from the cache after the request for its identifier  *)
(* had succeeded, from the entry the success stored                       *)
C12_Witness ==
    \E c \in calls, r \in 1..Len(requests) :
        /\ c.role = "cache" /\ c.url \in StoreUrls
        /\ requests[r].kind = "analyze" /\ requests[r].url = c.url
        /\ requests[r].pc = "done" /\ requests[r].ok
        /\ Payload(c.data) = Payload(requests[r].data)
        /\ IndexOfKey(cache, KeyOf(c.url), 1) # 0
        /\ EntryOf(cache, KeyOf(c.url)).cachedAt >= InitNow
        /\ EntryOf(cache, KeyOf(c.url)).expiresAt =
              EntryOf(cache, KeyOf(c.url)).cachedAt + CACHE_TTL

(* C13 as stated: the step in which a request fails terminally gives its  *)
(* error to every caller awaiting it and leaves the cache as it was; and  *)
(* every later analyzeAudio for the key starts a new provider request.    *)
C13_LaterCallStartsRequest ==
    [][/\ \A r \in 1..Len(requests') :
             (SettlesNow(r) /\ ~requests'[r].ok /\ requests'[r].kind = "analyze") =>
                LET key == KeyOf(requests'[r].url)
                IN  /\ cache' = IF r <= Len(requests) THEN cache
                                 ELSE cacheAfterGet(cache, key, now)
                    /\ storageCache' = storageCache
                    /\ storageHistory' = storageHistory
                    /\ pendingRequests'[key] = 0
                    /\ requests'[r].error # NoError
                    /\ \A c \in calls' :
                          c.req = r =>
                             (c.done /\ ~c.ok /\ c.error = requests'[r].error)
       /\ \A u \in StoreUrls, f, rt \in BOOLEAN :
             ((\E r \in 1..Len(requests) :
                   /\ requests[r].kind = "analyze"
                   /\ requests[r].pc = "done" /\ ~requests[r].ok
                   /\ KeyOf(requests[r].url) = KeyOf(u))
              /\ analyzeAudio(u, f, 0, rt))
             => StartsRequest(u)
      ]_vars

(* C13: the step in which a request fails terminally gives its error to   *)
(* every caller awaiting it, removes the pending entry and writes nothing *)
(* to the cache or the storage, so an entry the key had is kept; and a    *)
(* later call for the key starts a new request unless it is served by an  *)
(* entry of the key or joins a request pending for the key.               *)
C13_FailureNotCached ==
    [][/\ \A r \in 1..Len(requests') :
             (SettlesNow(r) /\ ~requests'[r].ok /\ requests'[r].kind = "analyze") =>
                LET key == KeyOf(requests'[r].url)
                IN  /\ cache' = IF r <= Len(requests) THEN cache
                                 ELSE cacheAfterGet(cache, key, now)
                    /\ storageCache' = storageCache
                    /\ storageHistory' = storageHistory
                    /\ pendingRequests'[key] = 0
                    /\ requests'[r].error # NoError
                    /\ \A c \in calls' :
                          c.req = r =>
                             (c.done /\ ~c.ok /\ c.error = requests'[r].error)
       /\ \A u \in StoreUrls, f, rt \in BOOLEAN :
             ((\E r \in 1..Len(requests) :
                   /\ requests[r].kind = "analyze"
                   /\ requests[r].pc = "done" /\ ~requests[r].ok
                   /\ KeyOf(requests[r].url) = KeyOf(u))
              /\ ~ServedFromCache(getFromCache(cache, KeyOf(u), now), f)
              /\ pendingRequests[KeyOf(u)] = 0
              /\ analyzeAudio(u, f, 0, rt))
             => StartsRequest(u)
      ]_vars

(* a forceRefresh request failed and the entry of an earlier success is   *)
(* still in the cache; its caller holds the error                         *)
C13_Witness ==
    /\ Len(requests) = 2
    /\ requests[1].kind = "analyze" /\ requests[2].kind = "analyze"
    /\ requests[1].pc = "done" /\ requests[1].ok
    /\ requests[2].pc = "done" /\ ~requests[2].ok
    /\ requests[2].url = requests[1].url
    /\ getFromCache(cache, KeyOf(requests[1].url), now) = requests[1].data
    /\ \E c \in calls : c.req = 2 /\ c.done /\ c.error = FetchTypeError

(* C14: a call with an invalid identifier (empty, not a string, not an   *)
(* http or https URL) is rejected in the step it is made, with the        *)
(* invalid-input error, and that step changes nothing else: the cache and *)
(* its stored copy, pendingRequests, the requests, the metrics and the    *)
(* history are as before.                                                 *)
C14_InvalidChangesNothing ==
    [][\A c \in calls' \ calls :
          c.url \in {"F", "E", "N"} =>
             /\ c.done /\ ~c.ok /\ c.req = 0
             /\ c.error = Err("Error", INVALID_URL)
             /\ calls' = calls \cup {c}
             /\ UNCHANGED <<cache, pendingRequests, requests, metrics,
                            storageCache, storageHistory, now, isOnline>>
      ]_vars

(* an ftp URL was refused while a request was in flight and the cache     *)
(* held an entry that had expired                                         *)
C14_Witness ==
    /\ \E c \in calls : c.url = "F" /\ c.done /\ c.error = Err("Error", INVALID_URL)
    /\ \E r \in 1..Len(requests) : requests[r].pc # "done"
    /\ \E i \in 1..Len(cache) : cache[i].entry.expiresAt # 0 /\ now > cache[i].entry.expiresAt

(* C15 as stated: a call that looks up an entry stored at s with TTL    *)
(* CACHE_TTL finds it when now <= s + CACHE_TTL; when now > s + CACHE_TTL *)
(* the lookup removes the entry, the call is not served by it, and the    *)
(* call starts a provider request.                                        *)
C15_ExpiredHitStartsRequest ==
    [][\A u \in StoreUrls, f, rt \in BOOLEAN :
          (/\ IndexOfKey(cache, KeyOf(u), 1) # 0
           /\ EntryOf(cache, KeyOf(u)).expiresAt # 0
           /\ analyzeAudio(u, f, 0, rt))
          => LET key == KeyOf(u)
                 e == EntryOf(cache, key)
             IN  IF now <= e.cachedAt + CACHE_TTL
                 THEN /\ IndexOfKey(cache', key, 1) # 0
                      /\ EntryOf(cache', key) = e
                      /\ ~f => \E c \in calls' \ calls :
                                  /\ c.url = u /\ c.done /\ c.ok
                                  /\ Payload(c.data) = Payload(e.data)
                 ELSE /\ IndexOfKey(cache', key, 1) = 0
                      /\ Len(cache') = Len(cache) - 1
                      /\ \A c \in calls' \ calls : c.role # "cache"
                      /\ StartsRequest(u)
      ]_vars

(* C15: a call that looks up an entry stored at s with TTL CACHE_TTL      *)
(* finds it when now <= s + CACHE_TTL; when now > s + CACHE_TTL the       *)
(* lookup removes the entry, the call is not served by it, and the call   *)
(* starts a provider request or joins the one pending for its key.        *)
C15_ExpiryByLookup ==
    [][\A u \in StoreUrls, f, rt \in BOOLEAN :
          (/\ IndexOfKey(cache, KeyOf(u), 1) # 0
           /\ EntryOf(cache, KeyOf(u)).expiresAt # 0
           /\ analyzeAudio(u, f, 0, rt))
          => LET key == KeyOf(u)
                 e == EntryOf(cache, key)
             IN  IF now <= e.cachedAt + CACHE_TTL
                 THEN /\ IndexOfKey(cache', key, 1) # 0
                      /\ EntryOf(cache', key) = e
                      /\ ~f => \E c \in calls' \ calls :
                                  /\ c.url = u /\ c.done /\ c.ok
                                  /\ Payload(c.data) = Payload(e.data)
                 ELSE /\ IndexOfKey(cache', key, 1) = 0
                      /\ Len(cache') = Len(cache) - 1
                      /\ \A c \in calls' \ calls : c.role # "cache"
                      /\ \/ StartsRequest(u)
                         \/ /\ pendingRequests[key] # 0
                            /\ requests' = requests
                            /\ \E c \in calls' \ calls :
                                  c.role = "joiner" /\ c.req = pendingRequests[key]
      ]_vars

(* a call found the entry of D expired, one millisecond after its expiry: *)
(* the entry is gone from the cache, though not from its stored copy, and *)
(* the request the call started is in flight                              *)
C15_Witness ==
    /\ now = InitNow + 1
    /\ IndexOfKey(cache, KeyOf("D"), 1) = 0
    /\ \E i \in 1..Len(storageCache) :
          /\ storageCache[i].key = KeyOf("D")
          /\ storageCache[i].expiresAt = InitNow
    /\ \E c \in calls :
          /\ c.url = "D" /\ c.role = "owner" /\ ~c.done
          /\ requests[c.req].pc # "done"
    /\ \E c \in calls : c.url = "D" /\ c.role = "cache"

(* The key a request stores its result under *)
StoredKey(rq) == IF rq.kind = "recommendations" THEN RecKey(rq.url) ELSE KeyOf(rq.url)

(* C16 as stated: when a request succeeds over a cache that holds         *)
(* MAX_CACHE_ENTRIES entries, an entry whose key leaves the cache is one  *)
(* that was stored no later than any other entry present, and the key     *)
(* just stored is in the cache.                                           *)
C16_EvictsEarliestStored ==
    [][\A r \in 1..Len(requests) :
          (SettlesNow(r) /\ requests'[r].ok /\ Len(cache) = MAX_CACHE_ENTRIES) =>
             /\ IndexOfKey(cache', StoredKey(requests[r]), 1) # 0
             /\ \A i \in 1..Len(cache) :
                   IndexOfKey(cache', cache[i].key, 1) = 0 =>
                      \A j \in 1..Len(cache) :
                         cache[i].entry.cachedAt <= cache[j].entry.cachedAt
      ]_vars

(* C16: when a request succeeds over a cache that holds MAX_CACHE_ENTRIES *)
(* entries, the entry evicted is the first in the cache's insertion order *)
(* (a key stored again in place keeps its position), whatever was read;   *)
(* the other entries stay, in their order, and the key just stored is in  *)
(* the cache with the new result.                                         *)
C16_EvictsFirstInserted ==
    [][\A r \in 1..Len(requests) :
          (SettlesNow(r) /\ requests'[r].ok /\ Len(cache) = MAX_CACHE_ENTRIES) =>
             LET key == StoredKey(requests[r])
             IN  /\ IndexOfKey(cache', key, 1) # 0
                 /\ EntryOf(cache', key).data = requests'[r].data
                 /\ Head(cache).key # key => IndexOfKey(cache', Head(cache).key, 1) = 0
                 /\ SelectSeq(cache', LAMBDA x : x.key # key)
                       = SelectSeq(Tail(cache), LAMBDA x : x.key # key)
      ]_vars

(* the first entry of a full cache was read by a call, and the next store *)
(* evicted it all the same: the call holds its data, the key is gone, the *)
(* cache is full again and the new key is last                            *)
C16_Witness ==
    /\ Len(cache) = MAX_CACHE_ENTRIES
    /\ IndexOfKey(cache, KeyOf("A"), 1) = 0
    /\ \E c \in calls : c.url = "A" /\ c.role = "cache" /\ c.done
    /\ \E r \in 1..Len(requests) :
          /\ requests[r].pc = "done" /\ requests[r].ok
          /\ cache[Len(cache)].key = StoredKey(requests[r])
    /\ cache[1].key = FillerKey(2)

(* C17: the cache never holds more than MAX_CACHE_ENTRIES entries,       *)
(* whatever calls of analyzeAudio and getRecommendations, lookups,        *)
(* clearStorage and reloads have been made.                               *)
C17_CacheBounded == Len(cache) <= MAX_CACHE_ENTRIES

(* two results were stored over a cache that held MAX_CACHE_ENTRIES - 1   *)
(* entries, recommendations among them: the cache is full and its first   *)
(* entry has been evicted                                                 *)
C17_Witness ==
    /\ Len(cache) = MAX_CACHE_ENTRIES
    /\ Len(requests) = 2
    /\ \A r \in 1..2 : requests[r].pc = "done" /\ requests[r].ok
    /\ \E r \in 1..2 : requests[r].kind = "recommendations"
    /\ IndexOfKey(cache, RecKey("R"), 1) # 0
    /\ cache[1].key = FillerKey(2)

(* The persisted records a construction at time t keeps: those without  *)
(* expiresAt and those whose expiresAt is not before t.                   *)
KeptRecords(items, t) ==
    SelectSeq(items, LAMBDA item : item.expiresAt = 0 \/ t <= item.expiresAt)

(* Cache c holds exactly the records of `items`, in their order. *)
HoldsExactly(c, items) ==
    /\ Len(c) = Len(items)
    /\ \A i \in 1..Len(items) :
          /\ c[i].key = items[i].key
          /\ c[i].entry = [data |-> items[i].data, cachedAt |-> items[i].cachedAt,
                           expiresAt |-> items[i].expiresAt]

(* C19: after a construction, the first or a later one, the cache holds   *)
(* exactly the persisted records whose expiresAt is not past at that      *)
(* time, those without expiresAt included, in persisted order; over an    *)
(* absent or empty store the cache is empty.                              *)
C19_LoadedOnConstruction ==
    /\ HoldsExactly(cache, KeptRecords(storageCache, now))
    /\ storageCache = <<>> => cache = <<>>
    /\ [][Reload => /\ HoldsExactly(cache', KeptRecords(storageCache, now))
                    /\ storageCache = <<>> => cache' = <<>>
                    /\ storageCache' = storageCache]_vars

(* a page was loaded again one millisecond after the expiry of D: of the  *)
(* three persisted records only the one without expiresAt is in the       *)
(* cache, and the store still holds the three                             *)
C19_Witness ==
    /\ now = InitNow + 1
    /\ calls = {}
    /\ storageCache = MixedStore
    /\ Len(cache) = 1
    /\ cache[1].key = KeyOf("C") /\ cache[1].entry.expiresAt = 0

(* ======================= HarmonicMixer ======================= *)
(* Camelot wheel of the mixer *)
CAMELOT_WHEEL ==
       "1A" :> [key |-> "Abm", compatible |-> <<"1A", "12A", "2A", "1B">>]
    @@ "1B" :> [key |-> "B", compatible |-> <<"1B", "12B", "2B", "1A">>]
    @@ "2A" :> [key |-> "Ebm", compatible |-> <<"2A", "1A", "3A", "2B">>]
    @@ "2B" :> [key |-> "Gb", compatible |-> <<"2B", "1B", "3B", "2A">>]
    @@ "3A" :> [key |-> "Bbm", compatible |-> <<"3A", "2A", "4A", "3B">>]
    @@ "3B" :> [key |-> "Db", compatible |-> <<"3B", "2B", "4B", "3A">>]
    @@ "4A" :> [key |-> "Fm", compatible |-> <<"4A", "3A", "5A", "4B">>]
    @@ "4B" :> [key |-> "Ab", compatible |-> <<"4B", "3B", "5B", "4A">>]
    @@ "5A" :> [key |-> "Cm", compatible |-> <<"5A", "4A", "6A", "5B">>]
    @@ "5B" :> [key |-> "Eb", compatible |-> <<"5B", "4B", "6B", "5A">>]
    @@ "6A" :> [key |-> "Gm", compatible |-> <<"6A", "5A", "7A", "6B">>]
    @@ "6B" :> [key |-> "Bb", compatible |-> <<"6B", "5B", "7B", "6A">>]
    @@ "7A" :> [key |-> "Dm", compatible |-> <<"7A", "6A", "8A", "7B">>]
    @@ "7B" :> [key |-> "F", compatible |-> <<"7B", "6B", "8B", "7A">>]
    @@ "8A" :> [key |-> "Am", compatible |-> <<"8A", "7A", "9A", "8B">>]
    @@ "8B" :> [key |-> "C", compatible |-> <<"8B", "7B", "9B", "8A">>]
    @@ "9A" :> [key |-> "Em", compatible |-> <<"9A", "8A", "10A", "9B">>]
    @@ "9B" :> [key |-> "G", compatible |-> <<"9B", "8B", "10B", "9A">>]
    @@ "10A" :> [key |-> "Bm", compatible |-> <<"10A", "9A", "11A", "10B">>]
    @@ "10B" :> [key |-> "D", compatible |-> <<"10B", "9B", "11B", "10A">>]
    @@ "11A" :> [key |-> "Gbm", compatible |-> <<"11A", "10A", "12A", "11B">>]
    @@ "11B" :> [key |-> "A", compatible |-> <<"11B", "10B", "12B", "11A">>]
    @@ "12A" :> [key |-> "Dbm", compatible |-> <<"12A", "11A", "1A", "12B">>]
    @@ "12B" :> [key |-> "E", compatible |-> <<"12B", "11B", "1B", "12A">>]

(* `value || fallback` on a number: the fallback replaces a missing value *)
(* and 0.                                                                 *)
OrDefault(value, fallback) == IF value = NONE \/ value = 0 THEN fallback ELSE value

Analysis(bpm, camelot, energy, loudness) ==
    [bpm |-> bpm, camelot |-> camelot, compatibleKeys |-> CAMELOT_WHEEL[camelot].compatible,
     energy |-> energy, loudness |-> loudness]

(* The tracks sequences are built from: A, B and C of the scenario        *)
(* (128/8B/0.5, 130/9B/0.6, 122/8A/0.3), a silent track Z of energy 0, a  *)
(* distant track F (60 bpm, 3A, energy 1, -5 dB) and a track U that has   *)
(* not been analysed.                                                     *)
TrackNames == {"A", "B", "C", "Z", "F", "H", "U"}
AnalysisOf(id) ==
    CASE id = "A" -> Analysis(128, "8B", 50, NONE)
      [] id = "B" -> Analysis(130, "9B", 60, NONE)
      [] id = "C" -> Analysis(122, "8A", 30, NONE)
      [] id = "Z" -> Analysis(128, "8B", 0, NONE)
      [] id = "F" -> Analysis(60, "3A", 100, -5)
      [] id = "H" -> Analysis(228, "9B", 100, NONE)
      [] OTHER    -> NoAnalysis

Abs(x) == IF x < 0 THEN 0 - x ELSE x
Max(x, y) == IF x > y THEN x ELSE y
Includes(list, x) == \E i \in 1..Len(list) : list[i] = x

(* the bpm difference is taken without Math.abs *)
calculateCompatibilityScore_SignedDiff(analysisA, analysisB) ==
    LET camelotMatch == Includes(analysisA.compatibleKeys, analysisB.camelot)
        bpmDiff == OrDefault(analysisA.bpm, 120) - OrDefault(analysisB.bpm, 120)
        bpmScore == Max(0, 300 - bpmDiff * 3)
        energyDiff == Abs(OrDefault(analysisA.energy, 50) - OrDefault(analysisB.energy, 50))
        energyScore == Max(0, 200 - energyDiff * 4)
        loudnessDiff == Abs(OrDefault(analysisA.loudness, -20) - OrDefault(analysisB.loudness, -20))
        loudnessScore == Max(0, 100 - loudnessDiff * 5)
        score == (IF camelotMatch THEN 400 ELSE 0) + bpmScore + energyScore + loudnessScore
    IN  (score + 5) \div 10

(* the terms are not floored at 0 *)
calculateCompatibilityScore_NoFloor(analysisA, analysisB) ==
    LET camelotMatch == Includes(analysisA.compatibleKeys, analysisB.camelot)
        bpmDiff == Abs(OrDefault(analysisA.bpm, 120) - OrDefault(analysisB.bpm, 120))
        energyDiff == Abs(OrDefault(analysisA.energy, 50) - OrDefault(analysisB.energy, 50))
        loudnessDiff == Abs(OrDefault(analysisA.loudness, -20) - OrDefault(analysisB.loudness, -20))
        score == (IF camelotMatch THEN 400 ELSE 0) + (300 - bpmDiff * 3)
                    + (200 - energyDiff * 4) + (100 - loudnessDiff * 5)
    IN  (score + 5) \div 10

(* calculateCompatibilityScore: the four terms in tenths of a point, the  *)
(* sum rounded to the nearest whole number, halves upwards.               *)
calculateCompatibilityScore(analysisA, analysisB) ==
    LET camelotMatch == Includes(analysisA.compatibleKeys, analysisB.camelot)
        bpmDiff == Abs(OrDefault(analysisA.bpm, 120) - OrDefault(analysisB.bpm, 120))
        bpmScore == Max(0, 300 - bpmDiff * 3)
        energyDiff == Abs(OrDefault(analysisA.energy, 50) - OrDefault(analysisB.energy, 50))
        energyScore == Max(0, 200 - energyDiff * 4)
        loudnessDiff == Abs(OrDefault(analysisA.loudness, -20) - OrDefault(analysisB.loudness, -20))
        loudnessScore == Max(0, 100 - loudnessDiff * 5)
        score == (IF camelotMatch THEN 400 ELSE 0) + bpmScore + energyScore + loudnessScore
    IN  (score + 5) \div 10

(* The analyses the scorer is called with: every field missing or at an   *)
(* end or inside of its range (bpm 40..250, energy 0..1 in hundredths,    *)
(* loudness negative), compatibleKeys as the wheel gives them.  On these  *)
(* values the sum of the terms in double arithmetic is the exact sum.     *)
BpmValues == {NONE, 40, 128, 130, 250}
EnergyValues == {NONE, 0, 50, 60, 100}
LoudnessValues == {NONE, -60, -5}
CamelotValues == {"", "8B", "9B"}
Analyses ==
    {[bpm |-> b, camelot |-> c,
      compatibleKeys |-> IF c = "" THEN <<>> ELSE CAMELOT_WHEEL[c].compatible,
      energy |-> e, loudness |-> l] :
        b \in BpmValues, c \in CamelotValues, e \in EnergyValues, l \in LoudnessValues}

(* A caller computes the score of one pair of analyses, up to             *)
(* MaxScoreCalls times.                                                   *)
MaxScoreCalls == 2
InitScore ==
    /\ scoreArgA \in Analyses
    /\ scoreArgB \in Analyses
    /\ scoreResult = NONE
    /\ scoreCalls = 0
    /\ SequenceIdle
    /\ WheelIdle
    /\ UiIdle
    /\ InitService
    /\ isOnline

Score ==
    /\ scoreCalls < MaxScoreCalls
    /\ scoreResult' = calculateCompatibilityScore(scoreArgA, scoreArgB)
    /\ scoreCalls' = scoreCalls + 1
    /\ UNCHANGED <<scoreArgA, scoreArgB>>

NextScore == Score /\ UNCHANGED <<vars, sequenceVars, wheel, ui>>

SpecScore == InitScore /\ [][NextScore]_mixerVars

(* findBestMatch: the index of the first candidate of the highest score,  *)
(* 0 standing for null when there is no candidate or the highest score is *)
(* not above 50.                                                          *)
THRESHOLD == 50
(* The score findBestMatch computes for a current track and a candidate
   (line 882), on the analyses of the two tracks, `{}` for a track without
   one (lines 877 and 881). *)
trackScore ==
    [current \in TrackNames, candidate \in TrackNames |->
        calculateCompatibilityScore(AnalysisOf(current), AnalysisOf(candidate))]

(* a findBestMatch that accepts a best score equal to the threshold *)
findBestMatch_AtLeast(currentTrack, candidates) ==
    LET score(i) == trackScore[currentTrack, candidates[i]]
        n == Len(candidates)
        accepted == {i \in 1..n : /\ score(i) >= THRESHOLD
                                  /\ \A j \in 1..n : score(j) <= score(i)
                                  /\ \A j \in 1..(i - 1) : score(j) < score(i)}
    IN  IF accepted = {} THEN 0 ELSE CHOOSE i \in accepted : TRUE

(* findBestMatch: the loop keeps the first candidate of the highest score
   (`score > bestScore` is strict, scores are >= 0 > -1), and the candidate is
   returned only when that score exceeds the threshold.  The result is the
   1-based index of the candidate, 0 standing for null. *)
findBestMatch(currentTrack, candidates) ==
    LET score(i) == trackScore[currentTrack, candidates[i]]
        n == Len(candidates)
        accepted == {i \in 1..n : /\ score(i) > THRESHOLD
                                  /\ \A j \in 1..n : score(j) <= score(i)
                                  /\ \A j \in 1..(i - 1) : score(j) < score(i)}
    IN  IF accepted = {} THEN 0 ELSE CHOOSE i \in accepted : TRUE

(* `[...tracks].sort(...)`: a stable sort, ascending, by `energy || 0.5`. *)
SortByEnergy(list) ==
    LET energy(i) == OrDefault(AnalysisOf(list[i]).energy, 50)
        place(i) == Cardinality({j \in 1..Len(list) : energy(j) < energy(i)})
                       + Cardinality({j \in 1..i : energy(j) = energy(i)})
    IN  [p \in 1..Len(list) |-> list[CHOOSE i \in 1..Len(list) : place(i) = p]]

(* a splice that removes nothing *)
splice_Nothing(list, index) == list

(* a splice that removes two elements: `list.splice(index, 2)` *)
splice_Pair(list, index) == SubSeq(list, 1, index - 1) \o SubSeq(list, index + 2, Len(list))

(* `list.splice(index, 1)` *)
splice(list, index) == SubSeq(list, 1, index - 1) \o SubSeq(list, index + 1, Len(list))

(* createSequence(tracks) is called with a list of at most MaxTracks tracks. *)
MaxTracks == 3
TrackLists == UNION {[1..n -> TrackNames] : n \in 0..MaxTracks}
InitMixer ==
    /\ tracks \in TrackLists
    /\ sequence = <<>>
    /\ remaining = <<>>
    /\ mixerPc = "called"
    /\ iterations = 0
    /\ scoreCount = 0
    /\ ScoreIdle
    /\ WheelIdle
    /\ UiIdle
    /\ InitService

(* a createSequence that returns an empty list for fewer than 2 tracks *)
createSequence_Empty ==
    /\ mixerPc = "called"
    /\ IF Len(tracks) < 2
       THEN /\ sequence' = <<>>
            /\ remaining' = <<>>
            /\ mixerPc' = "returned"
       ELSE LET sorted == SortByEnergy(tracks)
            IN  /\ sequence' = <<Head(sorted)>>
                /\ remaining' = Tail(sorted)
                /\ mixerPc' = "loop"
    /\ UNCHANGED <<tracks, iterations, scoreCount>>

(* createSequence up to its loop: lines 846-857 *)
createSequence ==
    /\ mixerPc = "called"
    /\ IF Len(tracks) < 2
       THEN /\ sequence' = tracks
            /\ remaining' = <<>>
            /\ mixerPc' = "returned"
       ELSE LET sorted == SortByEnergy(tracks)
            IN  /\ sequence' = <<Head(sorted)>>
                /\ remaining' = Tail(sorted)
                /\ mixerPc' = "loop"
    /\ UNCHANGED <<tracks, iterations, scoreCount>>

(* one iteration of the while loop: lines 858-868 *)
LoopIteration ==
    /\ mixerPc = "loop"
    /\ remaining # <<>>
    /\ \E bestMatch \in {findBestMatch(sequence[Len(sequence)], remaining)} :
           IF bestMatch # 0
           THEN /\ sequence' = Append(sequence, remaining[bestMatch])
                /\ remaining' = splice(remaining, bestMatch)
           ELSE /\ sequence' = Append(sequence, Head(remaining))
                /\ remaining' = Tail(remaining)
    /\ iterations' = iterations + 1
    /\ scoreCount' = scoreCount + Len(remaining)
    /\ UNCHANGED <<tracks, mixerPc>>

(* the loop ends and the sequence is returned: lines 858 and 870 *)
ReturnSequence ==
    /\ mixerPc = "loop"
    /\ remaining = <<>>
    /\ mixerPc' = "returned"
    /\ UNCHANGED <<tracks, sequence, remaining, iterations, scoreCount>>

NextMixer ==
    \/ createSequence /\ UNCHANGED <<vars, scoreVars, wheel, ui>>
    \/ LoopIteration /\ UNCHANGED <<vars, scoreVars, wheel, ui>>
    \/ ReturnSequence /\ UNCHANGED <<vars, scoreVars, wheel, ui>>

SpecMixer == InitMixer /\ [][NextMixer]_mixerVars

(* createSequence is synchronous code: once called it runs each of its steps
   to the return without being descheduled. *)
SpecMixerFair == SpecMixer /\ WF_mixerVars(NextMixer)

(* The number of times x occurs in list *)
Count(list, x) == Cardinality({i \in 1..Len(list) : list[i] = x})

(* C20: the sequence createSequence returns is a permutation of the list  *)
(* it was given: as long, and holding every track as many times; while    *)
(* the sequence is built every track is in the sequence or in the pool;   *)
(* and no step writes the list that was given.                            *)
C20_Permutation ==
    /\ [](mixerPc = "returned" =>
            /\ Len(sequence) = Len(tracks)
            /\ \A x \in TrackNames : Count(sequence, x) = Count(tracks, x))
    /\ [](mixerPc = "loop" =>
            \A x \in TrackNames :
               Count(sequence, x) + Count(remaining, x) = Count(tracks, x))
    /\ [][tracks' = tracks]_mixerVars

(* a sequence of three tracks was returned in an order that is neither   *)
(* the order given nor the order of the sort: sorted C, U, A, with A      *)
(* taken from behind U for its score of 90 against 51                     *)
C20_Witness ==
    /\ mixerPc = "returned"
    /\ tracks = <<"U", "A", "C">>
    /\ sequence = <<"C", "A", "U">>

(* C21: a call of calculateCompatibilityScore returns a whole number     *)
(* from 0 to 100, fields missing or not; a second call with the same      *)
(* arguments returns what the first returned; and a call writes nothing   *)
(* but its result.                                                        *)
C21_ScorePure ==
    /\ [](scoreResult # NONE => scoreResult \in 0..100)
    /\ [][scoreCalls' # scoreCalls =>
             /\ scoreResult # NONE => scoreResult' = scoreResult
             /\ UNCHANGED <<vars, sequenceVars, scoreArgA, scoreArgB>>]_mixerVars

(* the score of an analysis with nothing but a bpm of 40 and one at the   *)
(* far end of every range was computed twice: it is 0                     *)
C21_Witness ==
    /\ scoreCalls > 1
    /\ scoreResult = 0
    /\ scoreArgA = [NoAnalysis EXCEPT !.bpm = 40]
    /\ scoreArgB.bpm = 250 /\ scoreArgB.energy = 100 /\ scoreArgB.loudness = -60

(* C22: when every field of both analyses is given, the score returned  *)
(* is round(K + T + E + L), with K = 40 if b.camelot is in                *)
(* a.compatibleKeys and 0 otherwise, T = max(0, 30 - 0.3 |a.bpm - b.bpm|),*)
(* E = max(0, 20 - 40 |a.energy - b.energy|) and                          *)
(* L = max(0, 10 - 0.5 |a.loudness - b.loudness|), in tenths of a point.  *)
C22_ScoreFormula ==
    (/\ scoreResult # NONE
     /\ \A x \in {scoreArgA, scoreArgB} :
           x.bpm # NONE /\ x.energy # NONE /\ x.loudness # NONE /\ x.camelot # "")
    => LET K == IF Includes(scoreArgA.compatibleKeys, scoreArgB.camelot) THEN 400 ELSE 0
           T == Max(0, 300 - 3 * Abs(scoreArgA.bpm - scoreArgB.bpm))
           E == Max(0, 200 - 4 * Abs(scoreArgA.energy - scoreArgB.energy))
           L == Max(0, 100 - 5 * Abs(scoreArgA.loudness - scoreArgB.loudness))
       IN  scoreResult = (K + T + E + L + 5) \div 10

(* C23: for A(bpm 128, camelot 8B, energy 0.5) and B(bpm 130, camelot 9B,
   energy 0.6), no other field given, the score of (A, B) is 85.  The code
   adds 10 points for the loudness, both missing values defaulting to -20,
   and returns 95. *)
C23_ScenarioScore ==
    (scoreResult # NONE /\ scoreArgA = AnalysisOf("A") /\ scoreArgB = AnalysisOf("B"))
    => scoreResult = 85

(* C24: for 2 or more tracks the sequence starts at a track of minimum
   energy, a missing energy counting as 0.5 and every given energy, 0
   included, as itself; among tracks of equal energy the earliest of the
   input comes first.  In the scenario [A, B, C] the sequence starts at C. *)
C24_StartsAtMinimumEnergy ==
    (Len(tracks) >= 2 /\ mixerPc # "called")
    => LET energy(i) == IF AnalysisOf(tracks[i]).energy = NONE THEN 50
                        ELSE AnalysisOf(tracks[i]).energy
           first == CHOOSE i \in 1..Len(tracks) :
                       /\ \A j \in 1..Len(tracks) : energy(i) <= energy(j)
                       /\ \A j \in 1..(i - 1) : energy(i) < energy(j)
       IN  /\ sequence[1] = tracks[first]
           /\ tracks = <<"A", "B", "C">> => sequence[1] = "C"

(* C25: at every step of createSequence, with last the tail of the sequence:
   when the highest score of (last, candidate) over the pool is strictly
   greater than 50, the earliest candidate of that score is appended and
   removed from the pool; otherwise, a highest score of exactly 50 included,
   the first element of the pool is appended and removed.  Either way every
   candidate has been scored once, and no more. *)
C25_GreedyStep ==
    [][iterations' # iterations =>
          LET last == sequence[Len(sequence)]
              n == Len(remaining)
              score(i) == calculateCompatibilityScore(AnalysisOf(last), AnalysisOf(remaining[i]))
              earliest == CHOOSE i \in 1..n :
                              /\ \A j \in 1..n : score(j) <= score(i)
                              /\ \A j \in 1..(i - 1) : score(j) < score(i)
              taken == IF score(earliest) > 50 THEN earliest ELSE 1
          IN  /\ sequence' = Append(sequence, remaining[taken])
              /\ remaining' = [p \in 1..(n - 1) |->
                                  IF p < taken THEN remaining[p] ELSE remaining[p + 1]]
              /\ scoreCount' = scoreCount + n]_mixerVars

(* After A the pool is [F, H]: H scores exactly 50 and F 12, and F, the first
   of the pool, has been appended. *)
C25_Witness ==
    /\ tracks = <<"A", "F", "H">>
    /\ calculateCompatibilityScore(AnalysisOf("A"), AnalysisOf("H")) = 50
    /\ sequence = <<"A", "F">>
    /\ remaining = <<"H">>
    /\ scoreCount = 2

(* C26: createSequence terminates; each iteration of its loop removes
   exactly one track from the pool; a list of n >= 2 tracks has been
   sequenced after exactly n - 1 iterations. *)
C26_Terminates ==
    /\ <>(mixerPc = "returned")
    /\ [][iterations' # iterations => Len(remaining') = Len(remaining) - 1]_mixerVars
    /\ []((mixerPc = "returned" /\ Len(tracks) >= 2)
            => iterations = Len(tracks) - 1 /\ Len(sequence) = Len(tracks))

C26_Witness ==
    /\ mixerPc = "returned"
    /\ Len(tracks) = MaxTracks
    /\ iterations = MaxTracks - 1
    /\ remaining = <<>>

(* C27: called with fewer than 2 tracks, createSequence returns its input
   unchanged, without entering the loop and without scoring anything. *)
C27_ShortInputUnchanged ==
    (Len(tracks) < 2 /\ mixerPc # "called")
    => /\ mixerPc = "returned"
       /\ sequence = tracks
       /\ iterations = 0
       /\ scoreCount = 0

C27_Witness == mixerPc = "returned" /\ tracks = <<"B">> /\ sequence = <<"B">> /\ scoreCount = 0

(***************************************************************************)
(* The compatible keys of a camelot code.  Three places of the system      *)
(* associate a list of compatible keys with a code: the mixer's            *)
(* CAMELOT_WHEEL, the analysis the provider returns, and the local         *)
(* recommendations of the API service.                                     *)
(***************************************************************************)

(* The camelot codes, by number and letter: camelotCode[8].B = "8B". *)
camelotCode ==
    << [A |-> "1A", B |-> "1B"], [A |-> "2A", B |-> "2B"], [A |-> "3A", B |-> "3B"],
       [A |-> "4A", B |-> "4B"], [A |-> "5A", B |-> "5B"], [A |-> "6A", B |-> "6B"],
       [A |-> "7A", B |-> "7B"], [A |-> "8A", B |-> "8B"], [A |-> "9A", B |-> "9B"],
       [A |-> "10A", B |-> "10B"], [A |-> "11A", B |-> "11B"], [A |-> "12A", B |-> "12B"] >>

(* `camelotWheel` of _generateLocalRecommendations; the provider's handler
   holds the same table. *)
camelotWheel ==
       "8A" :> <<"8A", "7A", "9A", "8B", "7B", "9B">>
    @@ "8B" :> <<"8B", "7B", "9B", "8A", "7A", "9A">>
    @@ "9A" :> <<"9A", "8A", "10A", "9B", "8B", "10B">>
    @@ "9B" :> <<"9B", "8B", "10B", "9A", "8A", "10A">>
    @@ "10A" :> <<"10A", "9A", "11A", "10B", "9B", "11B">>
    @@ "10B" :> <<"10B", "9B", "11B", "10A", "9A", "11A">>
    @@ "11A" :> <<"11A", "10A", "12A", "11B", "10B", "12B">>
    @@ "11B" :> <<"11B", "10B", "12B", "11A", "10A", "12A">>
    @@ "12A" :> <<"12A", "11A", "1A", "12B", "11B", "1B">>
    @@ "12B" :> <<"12B", "11B", "1B", "12A", "11A", "1A">>
    @@ "1A" :> <<"1A", "12A", "2A", "1B", "12B", "2B">>
    @@ "1B" :> <<"1B", "12B", "2B", "1A", "12A", "2A">>

(* `camelotWheel[camelot] || [camelot]` *)
wheelOrSelf(camelot) ==
    IF camelot \in DOMAIN camelotWheel THEN camelotWheel[camelot] ELSE <<camelot>>

(* The camelot codes of the provider's `keys`, one of which the hash of the
   URL selects. *)
keys == {"8B", "8A", "9B", "9A", "10B", "10A", "11B", "11A", "12B", "12A"}

WheelSources == {"mixer", "provider", "local"}

(* A code is about to be looked up: any code in the mixer's table and in the
   analysis handed to the local recommendations, a code of `keys` at the
   provider. *)
InitWheel ==
    /\ wheel \in [source : WheelSources, number : 1..12, letter : {"A", "B"},
                   compatibleKeys : {<<>>}]
    /\ wheel.source = "provider" => camelotCode[wheel.number][wheel.letter] \in keys
    /\ SequenceIdle
    /\ ScoreIdle
    /\ UiIdle
    /\ InitService
    /\ isOnline

(* CAMELOT_WHEEL[code].compatible *)
MixerWheel ==
    /\ wheel.source = "mixer" /\ wheel.compatibleKeys = <<>>
    /\ wheel' = [wheel EXCEPT !.compatibleKeys =
                     CAMELOT_WHEEL[camelotCode[wheel.number][wheel.letter]].compatible]

(* the provider's analysis.compatibleKeys *)
ProviderAnalysis ==
    /\ wheel.source = "provider" /\ wheel.compatibleKeys = <<>>
    /\ wheel' = [wheel EXCEPT !.compatibleKeys =
                     wheelOrSelf(camelotCode[wheel.number][wheel.letter])]

(* the compatibleKeys of _generateLocalRecommendations(analysis) *)
LocalCompatibleKeys ==
    /\ wheel.source = "local" /\ wheel.compatibleKeys = <<>>
    /\ wheel' = [wheel EXCEPT !.compatibleKeys =
                     wheelOrSelf(camelotCode[wheel.number][wheel.letter])]

NextWheel ==
    \/ MixerWheel /\ UNCHANGED <<vars, sequenceVars, scoreVars, ui>>
    \/ ProviderAnalysis /\ UNCHANGED <<vars, sequenceVars, scoreVars, ui>>
    \/ LocalCompatibleKeys /\ UNCHANGED <<vars, sequenceVars, scoreVars, ui>>

SpecWheel == InitWheel /\ [][NextWheel]_mixerVars

(* The elements of a list *)
Elements(list) == {list[i] : i \in 1..Len(list)}

(* C28: every list of compatible keys associated with a camelot code nL is
   exactly what the adjacency rule derives: nL itself, the same letter at
   n - 1 and at n + 1 (12 and 1 being adjacent), the other letter at n, and
   nothing else. *)
C28_KeysFollowAdjacency ==
    wheel.compatibleKeys # <<>>
    => LET n == wheel.number
           other == IF wheel.letter = "A" THEN "B" ELSE "A"
       IN  Elements(wheel.compatibleKeys) =
              { camelotCode[n][wheel.letter],
                camelotCode[IF n = 1 THEN 12 ELSE n - 1][wheel.letter],
                camelotCode[IF n = 12 THEN 1 ELSE n + 1][wheel.letter],
                camelotCode[n][other] }

(* C29: every successful analyzeAudio return carries metadata.cached, true
   when the value was served from the cache and false when it was freshly
   computed; the callers that joined an in-flight request included. *)
C29_SourceTag ==
    \A c \in calls :
        (c.done /\ c.ok /\ c.role \in {"cache", "owner", "joiner"})
            => c.data.cached = IF c.role = "cache" THEN "true" ELSE "false"

(* C30: an analyzeAudio call for identifier s only ever returns a result the
   provider produced for s: calls with different identifiers never join
   each other's pending request and never share a cache entry, the cache
   keys of distinct identifiers being distinct. *)
C30_ResultOfOwnIdentifier ==
    /\ \A c \in calls :
           (c.done /\ c.ok /\ c.role \in {"cache", "owner", "joiner"}) => c.data.src = c.url
    /\ \A c1, c2 \in calls :
           (c1.req # 0 /\ c1.req = c2.req) => c1.url = c2.url

(***************************************************************************)
(* SpecClear: analyzeAudio calls without retry for two URLs of distinct    *)
(* keys, the provider answering or the fetch failing, and clearStorage     *)
(* called at any moment, requests in flight included.                      *)
(***************************************************************************)
ClearUrls == {"A", "C"}
ClearCall ==
    \E u \in ClearUrls, f \in BOOLEAN :
        /\ analyzeAudio(u, f, 0, FALSE)
        /\ calls' # calls
        /\ Cardinality(calls') <= MaxCalls
        /\ Len(requests') <= MaxRequests

NextClear ==
    \/ ClearCall /\ UNCHANGED mixerVars
    \/ /\ \E r \in ReqIds : FetchResolve(r, 200)
       /\ UNCHANGED mixerVars
    \/ /\ \E r \in ReqIds : FetchReject(r)
       /\ UNCHANGED mixerVars
    \/ /\ \E r \in ReqIds, v \in 1..MaxVer : BodyComplete(r, 200, "object", v)
       /\ UNCHANGED mixerVars
    \/ clearStorage /\ UNCHANGED mixerVars

SpecClear == Init /\ [][NextClear]_vars

(* C31: whatever the interleaving of analyzeAudio calls, provider
   completions and clearStorage calls, at most one provider request is in
   flight per cache key. *)
C31_OneInFlightAcrossClear ==
    \A k \in CacheKeys :
        Cardinality({r \in 1..Len(requests) :
                        InFlight(r) /\ KeyOf(requests[r].url) = k}) <= 1

(* C32: the pendingRequests entry removed when a provider request settles
   is the entry that request registered: the settling of a request never
   removes the entry of another request. *)
C32_RemovesOwnEntry ==
    [][\A r \in 1..Len(requests) :
          (InFlight(r) /\ requests'[r].pc = "done")
              => \A k \in CacheKeys :
                     pendingRequests'[k] # pendingRequests[k] => pendingRequests[k] = r]_vars

(* C33: after clearStorage the cache, in memory and persisted, and the
   history stay empty until a request started after the clear succeeds: a
   request that was in flight when clearStorage ran writes nothing.
   Request r was in flight at the last clearStorage when it is the first
   request of its key, it is in flight and its entry is gone from
   pendingRequests (only clearStorage removes the entry of such a request);
   no later request has succeeded when cache, storage and history are
   still empty. *)
C33_ClearedStaysEmpty ==
    [][\A r \in 1..Len(requests) :
          (/\ InFlight(r) /\ requests'[r].pc = "done" /\ requests'[r].ok
           /\ \A r0 \in 1..(r - 1) : KeyOf(requests[r0].url) # KeyOf(requests[r].url)
           /\ pendingRequests[KeyOf(requests[r].url)] # r
           /\ cache = <<>> /\ storageCache = <<>> /\ storageHistory = <<>>)
              => (cache' = <<>> /\ storageCache' = <<>> /\ storageHistory' = <<>>)]_vars

(* C34: storing a value for a key that is already in the cache replaces
   the entry of that key and evicts the entry of no other key, whatever the
   size of the cache, a full cache included. *)
C34_RestoreEvictsNothing ==
    [][\A r \in 1..Len(requests) :
          (SettlesNow(r) /\ requests'[r].ok
              /\ IndexOfKey(cache, StoredKey(requests[r]), 1) # 0) =>
             /\ EntryOf(cache', StoredKey(requests[r])).data = requests'[r].data
             /\ \A i \in 1..Len(cache) : IndexOfKey(cache', cache[i].key, 1) # 0
      ]_vars

(***************************************************************************)
(* SpecHistory: a coordinator constructed over the history earlier         *)
(* analyses left in the storage, none to HISTORY_READ + 1 entries (the     *)
(* most _addToHistory ever leaves), then analyzeAudio calls and provider   *)
(* completions without clearStorage.                                       *)
(***************************************************************************)
FilledHistory(n) ==
    [i \in 1..n |-> HistoryEntry("D", Data("D", 1), InitNow - i * 1000)]

InitHistory ==
    /\ now = InitNow
    /\ isOnline = TRUE
    /\ storageCache = <<>>
    /\ \E n \in {0, HISTORY_READ - 1, HISTORY_READ, HISTORY_READ + 1} :
           storageHistory = FilledHistory(n)
    /\ cache = <<>>
    /\ pendingRequests = [k \in CacheKeys |-> 0]
    /\ requests = <<>>
    /\ calls = {}
    /\ metrics = ZeroMetrics
    /\ MixerIdle

NextHistory ==
    \/ ClearCall /\ UNCHANGED mixerVars
    \/ /\ \E r \in ReqIds : FetchResolve(r, 200)
       /\ UNCHANGED mixerVars
    \/ /\ \E r \in ReqIds : FetchReject(r)
       /\ UNCHANGED mixerVars
    \/ /\ \E r \in ReqIds, v \in 1..MaxVer : BodyComplete(r, 200, "object", v)
       /\ UNCHANGED mixerVars

SpecHistory == InitHistory /\ [][NextHistory]_vars

(* C35: the persisted history keeps the most recent 100 successful
   analyses, newest first: a successful analysis adds its entry at the
   front, and an entry is dropped only when it is older than the 100
   newest, so that n analyses leave min(n, 100) entries. *)
C35_HistoryKeepsHundred ==
    [][\A r \in 1..Len(requests) :
          (SettlesNow(r) /\ requests'[r].ok) =>
             LET kept == IF Len(storageHistory) < HISTORY_LIMIT
                         THEN Len(storageHistory) ELSE HISTORY_LIMIT - 1
             IN  /\ Len(storageHistory') = kept + 1
                 /\ storageHistory'[1].url = requests[r].url
                 /\ \A i \in 1..kept : storageHistory'[i + 1] = storageHistory[i]
      ]_vars

(* C36: in every reachable state successfulRequests + failedRequests <=
   totalRequests: a provider request counted in totalRequests is counted
   once more when it settles, as a success or as a failure, never as both
   and never twice. *)
C36_CountedOnce ==
    /\ [](/\ metrics.successfulRequests + metrics.failedRequests <= metrics.totalRequests
          /\ metrics.successfulRequests + metrics.failedRequests
                 = Cardinality({r \in 1..Len(requests) :
                                   requests[r].pc = "done" /\ requests[r].kind = "analyze"}))
    /\ [][/\ metrics'.successfulRequests \in
                 {metrics.successfulRequests, metrics.successfulRequests + 1}
          /\ metrics'.failedRequests \in {metrics.failedRequests, metrics.failedRequests + 1}
          /\ ~(/\ metrics'.successfulRequests # metrics.successfulRequests
               /\ metrics'.failedRequests # metrics.failedRequests)]_vars

(* Both requests of two calls have settled, one as a success and one as a
   failure. *)
C36_Witness ==
    /\ metrics.totalRequests = 2
    /\ metrics.successfulRequests = 1
    /\ metrics.failedRequests = 1
    /\ \A r \in 1..Len(requests) : requests[r].pc = "done"

(***************************************************************************)
(* analyzeAudioFile(file, options)                                         *)
(***************************************************************************)
MAX_FILE_SIZE == 25 * 1024 * 1024
SUPPORTED_FORMATS == {"audio/mpeg", "audio/mp3", "audio/wav", "audio/wave", "audio/x-wav",
                      "audio/mp4", "audio/x-m4a", "audio/flac"}
UNSUPPORTED_FORMAT == "Unsupported audio format. Please use MP3, WAV, M4A, or FLAC."
FILE_TOO_LARGE == "File is too large. Maximum size is 25MB."

(* The files analyzeAudioFile is called with: an MP3, a WAV whose type is
   in upper case, an MP3 over the size limit and a text file; `dataUrl` is
   what _fileToDataUrl resolves with. *)
FileNames == {"song", "LOUD", "huge", "text"}
FileValue(f) ==
    CASE f = "song" -> [type |-> "audio/mpeg", size |-> 1024, dataUrl |-> "L"]
      [] f = "LOUD" -> [type |-> "AUDIO/WAV", size |-> MAX_FILE_SIZE, dataUrl |-> "M"]
      [] f = "huge" -> [type |-> "audio/mpeg", size |-> MAX_FILE_SIZE + 1, dataUrl |-> "L"]
      [] OTHER      -> [type |-> "text/plain", size |-> 1024, dataUrl |-> "L"]

(* `type.toLowerCase()` *)
toLowerCase(type) == IF type = "AUDIO/WAV" THEN "audio/wav" ELSE type

(* validateAudioFile *)
validateAudioFile(f) ==
    /\ FileValue(f).size <= MAX_FILE_SIZE
    /\ toLowerCase(FileValue(f).type) \in SUPPORTED_FORMATS

(* `${file.name}_${file.size}_${file.lastModified}` with `_` for what is not
   a letter or a digit, as bytes: "s_1", "L_2", "h_3", "t_4". *)
generateFileHash(f) ==
    CASE f = "song" -> <<115, 95, 49>>
      [] f = "LOUD" -> <<76, 95, 50>>
      [] f = "huge" -> <<104, 95, 51>>
      [] OTHER      -> <<116, 95, 52>>

(* analyzeAudioFile up to `await this._fileToDataUrl(file)`: lines 125-157.
   A call that is waiting for the data URL is the record of role "file". *)
analyzeAudioFile(f, forceRefresh) ==
    /\ UNCHANGED <<now, isOnline, pendingRequests, requests, storageCache, storageHistory>>
    /\ IF ~validateAudioFile(f)
       THEN /\ calls' = calls \cup {[NewCall(f, "file", 0)
                           EXCEPT !.done = TRUE,
                                  !.error = Err("Error",
                                     IF FileValue(f).size > MAX_FILE_SIZE
                                     THEN FILE_TOO_LARGE ELSE UNSUPPORTED_FORMAT)]}
            /\ UNCHANGED <<cache, metrics>>
       ELSE
        LET cacheKey == generateCacheKey("analyze_file", generateFileHash(f))
            cached == getFromCache(cache, cacheKey, now)
        IN  /\ cache' = cacheAfterGet(cache, cacheKey, now)
            /\ IF ServedFromCache(cached, forceRefresh)
               THEN /\ metrics' = [metrics EXCEPT !.cacheHits = @ + 1]
                    /\ calls' = calls \cup {[NewCall(f, "file", 0)
                                   EXCEPT !.done = TRUE, !.ok = TRUE,
                                          !.data = wrapResponse(cached, TRUE)]}
               ELSE /\ metrics' = [metrics EXCEPT !.cacheMisses = @ + 1]
                    /\ calls' = calls \cup {NewCall(f, "file", 0)}

(* `return this.analyzeAudio(dataUrl, {...options, metadata})`, lines
   159-167: the file call settles as this call of analyzeAudio does. *)
analyzeDataUrl(f) ==
    /\ \E c \in calls : c.url = f /\ c.role = "file" /\ ~c.done
    /\ \E forceRefresh \in BOOLEAN : analyzeAudio(FileValue(f).dataUrl, forceRefresh, 0, TRUE)
    /\ calls' # calls

(* SpecFile: calls of analyzeAudioFile, next to calls of analyzeAudio, and
   the provider answering the requests that are made. *)
NextFile ==
    \/ /\ \E f \in FileNames, forceRefresh \in BOOLEAN : analyzeAudioFile(f, forceRefresh)
       /\ calls' # calls
       /\ UNCHANGED mixerVars
    \/ /\ \E f \in FileNames : analyzeDataUrl(f)
       /\ UNCHANGED mixerVars
    \/ ClearCall /\ UNCHANGED mixerVars
    \/ /\ \E r \in ReqIds : FetchResolve(r, 200)
       /\ UNCHANGED mixerVars
    \/ /\ \E r \in ReqIds : FetchReject(r)
       /\ UNCHANGED mixerVars
    \/ /\ \E r \in ReqIds, v \in 1..MaxVer : BodyComplete(r, 200, "object", v)
       /\ UNCHANGED mixerVars

SpecFile == Init /\ [][NextFile]_vars

(* C37: for a file that passes validateAudioFile and is not cached,
   analyzeAudioFile runs the analysis through analyzeAudio on the data URL
   of the file: the call fails only when the provider request made for it
   has failed. *)
C37_FileFailsOnlyWithProvider ==
    \A f \in FileNames, c \in calls :
        (/\ validateAudioFile(f)
         /\ \E w \in calls : w.url = f /\ w.role = "file" /\ ~w.done
         /\ c.url = FileValue(f).dataUrl /\ c.done /\ ~c.ok)
        => /\ c.req \in 1..Len(requests)
           /\ requests[c.req].pc = "done"
           /\ ~requests[c.req].ok

(***************************************************************************)
(* getRecommendations: the fallback and the cache                          *)
(***************************************************************************)
(* SpecRec: up to MaxRecCalls calls of getRecommendations, with and        *)
(* without forceRefresh, one request in flight at a time; every attempt    *)
(* ends with a 200 response whose body                                     *)
(* is an object, with a rejected fetch or with the timeout; the clock      *)
(* moves from timer to timer and to the expiry of the cached entries.      *)
MaxRecCalls == 3
RecHorizon == 2 * CACHE_TTL
RecStart ==
    \E a \in RecNames, f \in BOOLEAN :
        /\ getRecommendations(a, f, 0)
        /\ calls' # calls
        /\ Cardinality(calls') <= MaxRecCalls
        /\ Len(requests') <= MaxRequests
        /\ \/ Len(requests') = Len(requests)
           \/ \A r \in 1..Len(requests) : requests[r].pc = "done"
NextRec ==
    \/ RecStart /\ UNCHANGED mixerVars
    \/ /\ \E r \in ReqIds : FetchResolve(r, 200)
       /\ UNCHANGED mixerVars
    \/ /\ \E r \in ReqIds : FetchReject(r)
       /\ UNCHANGED mixerVars
    \/ /\ \E r \in ReqIds, v \in 1..MaxVer : BodyComplete(r, 200, "object", v)
       /\ UNCHANGED mixerVars
    \/ /\ \E r \in ReqIds : TimerFire(r)
       /\ UNCHANGED mixerVars
    \/ /\ \E r \in ReqIds : DelayExpire(r)
       /\ UNCHANGED mixerVars
    \/ TickToDeadline /\ UNCHANGED mixerVars
    \/ TickToExpiry(RecHorizon) /\ UNCHANGED mixerVars

SpecRec == Init /\ [][NextRec]_vars

(* The request made last for analysis `a` failed terminally and none is in
   flight: the call that comes next is the next call after a fallback. *)
FellBack(a) ==
    /\ \A r \in 1..Len(requests) : requests[r].pc = "done"
    /\ \E r \in 1..Len(requests) :
          /\ requests[r].kind = "recommendations" /\ requests[r].url = a
          /\ ~requests[r].ok
          /\ \A q \in (r + 1)..Len(requests) : requests[q].url # a

(* The entry of analysis `a` is in the cache and has not expired. *)
RecCached(a) ==
    /\ IndexOfKey(cache, RecKey(a), 1) # 0
    /\ now <= EntryOf(cache, RecKey(a)).expiresAt

(* Every call of getRecommendations that has returned, returned a result. *)
RecNeverFails == \A c \in calls : (c.role \in {"rec", "reccache"} /\ c.done) => c.ok

(* A request that fails terminally settles its calls with the local
   recommendations and leaves the cache and the persisted cache alone. *)
RecFallbackStep ==
    \A r \in 1..Len(requests) :
        (/\ requests[r].kind = "recommendations" /\ InFlight(r)
         /\ requests'[r].pc = "done" /\ ~requests'[r].ok)
        => /\ cache' = cache /\ storageCache' = storageCache
           /\ \A c \in calls' : c.req = r =>
                 c.done /\ c.ok /\ c.data = LocalRecommendations(requests[r].url)

(* A result of the provider is stored under the key of the analysis with
   CACHE_TTL. *)
RecStoreStep ==
    \A r \in 1..Len(requests) :
        (/\ requests[r].kind = "recommendations" /\ InFlight(r)
         /\ requests'[r].pc = "done" /\ requests'[r].ok)
        => /\ IndexOfKey(cache', RecKey(requests[r].url), 1) # 0
           /\ EntryOf(cache', RecKey(requests[r].url)).data = requests'[r].data
           /\ EntryOf(cache', RecKey(requests[r].url)).expiresAt = now + CACHE_TTL
           /\ \A c \in calls' : c.req = r => c.done /\ c.ok /\ c.data = requests'[r].data

(* A call without forceRefresh is served by the entry while it has not
   expired, and makes a request once it has. *)
RecServeStep ==
    \A a \in RecNames :
        (getRecommendations(a, FALSE, 0) /\ IndexOfKey(cache, RecKey(a), 1) # 0)
        => IF RecCached(a)
           THEN /\ requests' = requests
                /\ \E c \in calls' : /\ c.url = a /\ c.role = "reccache" /\ c.done /\ c.ok
                                      /\ c.data = EntryOf(cache, RecKey(a)).data
           ELSE Len(requests') = Len(requests) + 1

(* C38 as stated: getRecommendations never fails; a terminal failure gives
   the local recommendations, which are not cached, and the next call for
   the analysis makes a provider request; a provider result is cached with
   CACHE_TTL and served until it expires. *)
C38_NextCallTriesProvider ==
    /\ []RecNeverFails
    /\ [][RecFallbackStep /\ RecStoreStep /\ RecServeStep]_vars
    /\ [][\A a \in RecNames, f \in BOOLEAN :
            (FellBack(a) /\ getRecommendations(a, f, 0))
            => Len(requests') = Len(requests) + 1]_vars

(* C38, amended: as above, but the next call for the analysis makes a
   provider request unless an unexpired entry the key already has serves
   it (the call is made without forceRefresh). *)
C38_FallbackNotCached ==
    /\ []RecNeverFails
    /\ [][RecFallbackStep /\ RecStoreStep /\ RecServeStep]_vars
    /\ [][\A a \in RecNames, f \in BOOLEAN :
            (FellBack(a) /\ getRecommendations(a, f, 0) /\ (f \/ ~RecCached(a)))
            => Len(requests') = Len(requests) + 1]_vars

(* A call got the local recommendations after its request failed, the cache
   is empty, and a later call has made a new request. *)
C38_Witness ==
    \E c \in calls, d \in calls :
        /\ c.role = "rec" /\ c.done /\ c.ok /\ c.data = LocalRecommendations(c.url)
        /\ ~requests[c.req].ok /\ requests[c.req].pc = "done"
        /\ cache = <<>>
        /\ d.role = "rec" /\ d.url = c.url /\ d.req > c.req

(***************************************************************************)
(* calculateCompatibilityScore: symmetry                                   *)
(***************************************************************************)
(* The score of every pair of wheel codes, the other fields fixed, is the
   score of the pair the other way round. *)
WheelPairsSymmetric ==
    \A c \in DOMAIN CAMELOT_WHEEL, d \in DOMAIN CAMELOT_WHEEL :
        calculateCompatibilityScore(Analysis(128, c, 50, NONE), Analysis(130, d, 60, NONE))
        = calculateCompatibilityScore(Analysis(130, d, 60, NONE), Analysis(128, c, 50, NONE))

(* C39: on analyses whose compatibleKeys are the list of the wheel table
   for their own camelot code, the score of (a, b) is the score of (b, a):
   for the pair the scorer was called with, whatever its fields, and for
   every pair of codes of the wheel. *)
C39_ScoreSymmetric ==
    scoreCalls > 0 =>
        /\ scoreResult = calculateCompatibilityScore(scoreArgB, scoreArgA)
        /\ WheelPairsSymmetric

(* The scorer was called with two analyses that differ in every field and
   whose codes are adjacent on the wheel. *)
C39_Witness ==
    /\ scoreCalls > 0
    /\ scoreArgA.camelot = "8B" /\ scoreArgB.camelot = "9B"
    /\ scoreArgA.bpm = 128 /\ scoreArgB.bpm = 250
    /\ scoreArgA.energy = NONE /\ scoreArgB.energy = 100
    /\ scoreArgA.loudness = -5 /\ scoreArgB.loudness = -60
    /\ scoreResult = 40

(***************************************************************************)
(* FluxAnalyzerUI._performAnalysis                                         *)
(***************************************************************************)
MaxAnalyses == 2
MaxRefused == 1
allVars == <<vars, mixerVars>>

(* What the user analyses: a URL that _analyzeUrl has validated, or a file
   that was selected or dropped. *)
UiInputs == {<<"url", "A">>, <<"file", "song">>, <<"file", "text">>}

(* a finally block that leaves the flag set *)
UiFinally_KeepsFlag(u) == [u EXCEPT !.pc = "idle"]

(* `finally { this.state.isAnalyzing = false; ... }`, lines 780-784 *)
UiFinally(u) == [u EXCEPT !.isAnalyzing = FALSE, !.pc = "idle"]

(* The call record of the promise that the call of analyzeAudio(u) made in
   this step returned: the record the step added or, when the step added a
   record that was there already, that record. *)
ReturnedCall(u) ==
    IF calls' # calls THEN CHOOSE c \in calls' \ calls : TRUE
    ELSE IF u \notin ValidUrls THEN CHOOSE c \in calls : c.url = u /\ c.role = "invalid"
    ELSE CHOOSE c \in calls : /\ c.url = u /\ c.role = "cache"
                              /\ c.data = wrapResponse(getFromCache(cache, KeyOf(u), now), TRUE)

(* The same for the call of analyzeAudioFile(f) made in this step. *)
ReturnedFileCall(f) ==
    IF calls' # calls THEN CHOOSE c \in calls' \ calls : TRUE
    ELSE CHOOSE c \in calls : c.url = f /\ c.role = "file" /\ (c.done <=> ~validateAudioFile(f))

(* The same for the call of getRecommendations(a) made in this step. *)
ReturnedRecCall(a) ==
    IF calls' # calls THEN CHOOSE c \in calls' \ calls : TRUE
    ELSE CHOOSE c \in calls : /\ c.url = a /\ c.role = "reccache"
                              /\ c.data = getFromCache(cache, RecKey(a), now)

(* The promise of call record `c` has settled as record `d` shows. *)
SettledAs(c, d) ==
    /\ d.url = c.url /\ d.role = c.role /\ d.req = c.req
    /\ d.done
    /\ c.done => d = c

(* _performAnalysis({type, source}) up to its first await, lines 732-753:
   it returns at once while an analysis is running; otherwise it sets the
   flag and calls the API service. *)
performAnalysis(type, source) ==
    IF ui.isAnalyzing
    THEN /\ ui.refused < MaxRefused
         /\ ui' = [ui EXCEPT !.refused = @ + 1]
         /\ UNCHANGED vars
    ELSE /\ ui.started < MaxAnalyses
         /\ IF type = "url"
            THEN /\ analyzeAudio(source, FALSE, 0, TRUE)
                 /\ ui' = [ui EXCEPT !.isAnalyzing = TRUE, !.error = "", !.pc = "api",
                                     !.type = type, !.source = source,
                                     !.await = ReturnedCall(source), !.started = @ + 1]
            ELSE /\ analyzeAudioFile(source, FALSE)
                 /\ \E c \in {ReturnedFileCall(source)} :
                       ui' = [ui EXCEPT !.isAnalyzing = TRUE, !.error = "",
                                        !.pc = IF c.done THEN "api" ELSE "read",
                                        !.type = type, !.source = source,
                                        !.await = c, !.started = @ + 1]

(* The file has been read: analyzeAudioFile goes on with
   analyzeAudio(dataUrl), api-service.js lines 157-167. *)
UiFileRead ==
    /\ ui.pc = "read"
    /\ analyzeAudio(FileValue(ui.source).dataUrl, FALSE, 0, TRUE)
    /\ ui' = [ui EXCEPT !.pc = "api", !.await = ReturnedCall(FileValue(ui.source).dataUrl)]

(* The promise of the API call has settled, lines 755-778: a result is
   kept and the recommendations are asked for (FEATURES.RECOMMENDATIONS is
   set; every analysis has the recommendations key of "R"); an error is
   shown and the finally block runs. *)
UiAnalysisSettled ==
    /\ ui.pc = "api"
    /\ \E d \in calls :
          /\ SettledAs(ui.await, d)
          /\ IF d.ok
             THEN /\ \E a \in RecNames : getRecommendations(a, FALSE, 0)
                  /\ ui' = [ui EXCEPT !.lastResult = d.data, !.pc = "recs",
                                      !.await = ReturnedRecCall("R")]
             ELSE /\ ui' = UiFinally([ui EXCEPT !.error = d.error.message])
                  /\ UNCHANGED vars

(* _showRecommendations has returned, lines 766-784: the status is shown
   and the finally block runs. *)
UiRecommendationsSettled ==
    /\ ui.pc = "recs"
    /\ \E d \in calls : SettledAs(ui.await, d)
    /\ ui' = UiFinally(ui)
    /\ UNCHANGED vars

(* SpecUi: the user starts up to MaxAnalyses analyses and asks for up to
   MaxRefused more while one is running; the provider answers 200 with an
   object or the fetch fails or times out. *)
UiReqIds == 1..(2 * MaxAnalyses)
UiUnchanged == UNCHANGED <<sequenceVars, scoreVars, wheel>>
NextUi ==
    \/ /\ \E in \in UiInputs : performAnalysis(in[1], in[2])
       /\ UiUnchanged
    \/ UiFileRead /\ UiUnchanged
    \/ UiAnalysisSettled /\ UiUnchanged
    \/ UiRecommendationsSettled /\ UiUnchanged
    \/ /\ \E r \in UiReqIds : FetchResolve(r, 200)
       /\ UNCHANGED mixerVars
    \/ /\ \E r \in UiReqIds : FetchReject(r)
       /\ UNCHANGED mixerVars
    \/ /\ \E r \in UiReqIds : BodyComplete(r, 200, "object", 1)
       /\ UNCHANGED mixerVars
    \/ /\ \E r \in UiReqIds : TimerFire(r)
       /\ UNCHANGED mixerVars
    \/ /\ \E r \in UiReqIds : DelayExpire(r)
       /\ UNCHANGED mixerVars
    \/ TickToDeadline /\ UNCHANGED mixerVars

SpecUi == Init /\ [][NextUi]_allVars

(* SpecUiFair: SpecUi where the event loop runs the timers that are due
   and the continuations of the promises that have settled, time passes,
   and a response that has arrived is read to its end. *)
SpecUiFair ==
    /\ SpecUi
    /\ WF_allVars(TickToDeadline /\ UNCHANGED mixerVars)
    /\ WF_allVars(UiFileRead /\ UiUnchanged)
    /\ WF_allVars(UiAnalysisSettled /\ UiUnchanged)
    /\ WF_allVars(UiRecommendationsSettled /\ UiUnchanged)
    /\ \A r \in UiReqIds :
          /\ WF_allVars(TimerFire(r) /\ UNCHANGED mixerVars)
          /\ WF_allVars(DelayExpire(r) /\ UNCHANGED mixerVars)
          /\ WF_allVars(BodyComplete(r, 200, "object", 1) /\ UNCHANGED mixerVars)

(* C40: at most one analysis is in progress at a time; _performAnalysis
   invoked while state.isAnalyzing is set returns without calling the API
   service; an analysis starts only while the flag is clear; the flag is
   clear when the running analysis has ended, with a result or with an
   error; and the flag is always cleared again. *)
C40_OneAnalysisAtATime ==
    /\ [](Cardinality({r \in 1..Len(requests) : InFlight(r)}) <= 1)
    /\ [](ui.pc = "idle" => ~ui.isAnalyzing)
    /\ [][(ui.isAnalyzing /\ ui'.refused # ui.refused)
            => (UNCHANGED vars /\ ui' = [ui EXCEPT !.refused = @ + 1])]_allVars
    /\ [][ui'.started # ui.started => (~ui.isAnalyzing /\ ui'.isAnalyzing)]_allVars
    /\ [][(ui.pc # "idle" /\ ui'.pc = "idle") => ~ui'.isAnalyzing]_allVars
    /\ (ui.isAnalyzing ~> ~ui.isAnalyzing)

(* An invocation was refused while an analysis was running, that analysis
   ended with an error, and a later analysis ran and ended with a result. *)
C40_Witness ==
    /\ ui.refused > 0
    /\ ui.started = 2
    /\ ~ui.isAnalyzing
    /\ ui.lastResult # <<>>
    /\ \E r \in 1..Len(requests) :
          requests[r].kind = "analyze" /\ requests[r].pc = "done" /\ ~requests[r].ok

====
